---------------------------- MODULE Spec2Model ----------------------------
(***************************************************************************)
(* A model of the numeric operators of sql/item_func.cc: one operator node *)
(* (an Item_func over one or two operand items) is built, resolved by      *)
(* resolve_type() and evaluated on a row by val_int()/val_decimal()/       *)
(* val_real().                                                             *)
(*                                                                         *)
(* Machine integers.  longlong/ulonglong are 64 bits wide in the source.   *)
(* The model keeps the two's-complement structure but scales the word to   *)
(* WordBits = 2 * HalfBits bits so that every operand pair can be          *)
(* enumerated: LLONG_MIN, LLONG_MAX, ULLONG_MAX and the 32-bit halves of   *)
(* Item_func_mul::int_op become -2^(WordBits-1), 2^(WordBits-1)-1,         *)
(* 2^WordBits-1 and HalfBits-bit halves.  A longlong is an integer of      *)
(* LLONG_MIN..LLONG_MAX, a ulonglong an integer of 0..ULLONG_MAX, and the  *)
(* casts between them are to_ull and to_ll.                                *)
(*                                                                         *)
(* Signed overflow.  A signed operation whose mathematical result leaves   *)
(* LLONG_MIN..LLONG_MAX is undefined in C++.  The model keeps, for every   *)
(* value produced by signed arithmetic, the stored bits (v, the wrapped    *)
(* result) and the mathematical result (m).  The variable signed_wraps is  *)
(* the build: TRUE when sign tests on such a value read the stored bits,   *)
(* FALSE when the optimiser, assuming that signed arithmetic never         *)
(* overflows, answers them for the mathematical result.  Every executed    *)
(* overflowing signed operation is recorded in ub by its source line.      *)
(***************************************************************************)
EXTENDS Integers, Sequences, FiniteSets, TLC

\* Half of the machine word, in bits (32 in the source).
HalfBits == 2

WordBits == 2 * HalfBits

RECURSIVE Pow2(_)
Pow2(n) == IF n = 0 THEN 1 ELSE 2 * Pow2(n - 1)

ULLONG_MAX == Pow2(WordBits) - 1
LLONG_MAX == Pow2(WordBits - 1) - 1
LLONG_MIN == -Pow2(WordBits - 1)
ULONG_MASK == Pow2(HalfBits) - 1

LongLong == LLONG_MIN .. LLONG_MAX

\* (ulonglong) x
to_ull(x) == x % (ULLONG_MAX + 1)

\* (longlong) x: the bits of x read as a signed word
to_ll(x) == IF to_ull(x) > LLONG_MAX THEN to_ull(x) - (ULLONG_MAX + 1) ELSE to_ull(x)

\* The value of a signed expression whose mathematical result is m.
Signed(m) == [v |-> to_ll(m), m |-> m]

\* The value of an expression that involves no signed arithmetic.
Plain(x) == [v |-> to_ll(x), m |-> to_ll(x)]

\* The source line of a signed operation, if it overflowed.
Overflowed(s, line) == IF s.v # s.m THEN {line} ELSE {}

\* s < 0 for a value s of signed arithmetic, as the build evaluates it.
IsNegative(s, wraps) == IF wraps THEN s.v < 0 ELSE s.m < 0

\* The mathematical value of an operand: its bits read by its unsigned_flag.
ArgValue(a) == IF a.unsigned_flag THEN to_ull(a.val) ELSE a.val

\* The mathematical value of a returned longlong read by the node's unsigned_flag.
ResultValue(u, x) == IF u THEN to_ull(x) ELSE x

\* Whether the mathematical integer x fits the node's integer type.
Representable(u, x) == IF u THEN x >= 0 /\ x <= ULLONG_MAX ELSE x >= LLONG_MIN /\ x <= LLONG_MAX

-----------------------------------------------------------------------------
(* Results of one evaluation: the returned value, null_value, the errors     *)
(* raised with my_error, the warnings pushed, and the overflowed signed      *)
(* operations.                                                               *)

Returned(x, ub) == [value |-> x, null_value |-> FALSE, errors |-> <<>>, warnings |-> <<>>, ub |-> ub]

NullReturned(ub) == [value |-> 0, null_value |-> TRUE, errors |-> <<>>, warnings |-> <<>>, ub |-> ub]

\* raise_integer_overflow(): my_error(ER_DATA_OUT_OF_RANGE, "BIGINT") and return 0.
raise_integer_overflow(ub) == [value |-> 0, null_value |-> FALSE, errors |-> <<"ER_DATA_OUT_OF_RANGE: BIGINT">>, warnings |-> <<>>, ub |-> ub]

\* signal_divide_by_null() pushing the warning whatever the sql_mode.
signal_divide_by_null_unconditional(mode_error_for_division_by_zero, ub) ==
  [value |-> 0, null_value |-> TRUE, errors |-> <<>>,
   warnings |-> <<"ER_DIVISION_BY_ZERO">>, ub |-> ub]

\* signal_divide_by_null(): a warning under MODE_ERROR_FOR_DIVISION_BY_ZERO, null_value= 1.
signal_divide_by_null(mode_error_for_division_by_zero, ub) ==
  [value |-> 0, null_value |-> TRUE, errors |-> <<>>,
   warnings |-> IF mode_error_for_division_by_zero THEN <<"ER_DIVISION_BY_ZERO">> ELSE <<>>,
   ub |-> ub]

test_if_sum_overflows_ull(arg1, arg2) == ULLONG_MAX - arg1 < arg2

\* check_integer_overflow(value, val_unsigned) of a node whose flag is unsigned_flag.
check_integer_overflow(s, val_unsigned, unsigned_flag, wraps, ub) ==
  IF \/ unsigned_flag /\ ~val_unsigned /\ IsNegative(s, wraps)
     \/ ~unsigned_flag /\ val_unsigned /\ to_ull(s.v) > LLONG_MAX
  THEN raise_integer_overflow(ub)
  ELSE Returned(s.v, ub)

-----------------------------------------------------------------------------
(* Integer operators.  a0 and a1 are the operands (val, unsigned_flag,      *)
(* null_value), unsigned_flag is the node's.                                *)

Item_func_plus_int_op(a0, a1, unsigned_flag, wraps) ==
  LET val0 == a0.val
      val1 == a1.val
      res == Signed(val0 + val1)
      ub == Overflowed(res, 1871)
      err == raise_integer_overflow(ub)
      ok(res_unsigned) == check_integer_overflow(res, res_unsigned, unsigned_flag, wraps, ub)
  IN  IF a0.null_value \/ a1.null_value THEN NullReturned(ub)
      ELSE IF a0.unsigned_flag
      THEN IF a1.unsigned_flag \/ val1 >= 0
           THEN IF test_if_sum_overflows_ull(to_ull(val0), to_ull(val1)) THEN err ELSE ok(TRUE)
           ELSE ok(to_ull(val0) > LLONG_MAX)
      ELSE IF a1.unsigned_flag
      THEN IF val0 >= 0
           THEN IF test_if_sum_overflows_ull(to_ull(val0), to_ull(val1)) THEN err ELSE ok(TRUE)
           ELSE ok(to_ull(val1) > LLONG_MAX)
      ELSE IF val0 >= 0 /\ val1 >= 0 THEN ok(TRUE)
      ELSE IF val0 < 0 /\ val1 < 0 /\ ~IsNegative(res, wraps) THEN err
      ELSE ok(FALSE)

\* Item_func_minus::int_op() raising on a negative minuend and a positive
\* subtrahend without looking at the sign of the result.
Item_func_minus_int_op_sign_only(a0, a1, unsigned_flag, wraps) ==
  LET val0 == a0.val
      val1 == a1.val
      res == Signed(val0 - val1)
      neg_val1 == Signed(-val1)
      val0_min == Signed(val0 - LLONG_MIN)
      ub0 == Overflowed(res, 2003)
      err(ub) == raise_integer_overflow(ub)
      ok(res_unsigned, ub) == check_integer_overflow(res, res_unsigned, unsigned_flag, wraps, ub)
  IN  IF a0.null_value \/ a1.null_value THEN NullReturned(ub0)
      ELSE IF a0.unsigned_flag
      THEN IF a1.unsigned_flag
           THEN IF to_ull(val0) < to_ull(val1)
                THEN IF ~IsNegative(res, wraps) THEN err(ub0) ELSE ok(FALSE, ub0)
                ELSE ok(TRUE, ub0)
           ELSE IF val1 >= 0
                THEN ok(to_ull(val0) > to_ull(val1), ub0)
                ELSE LET ub == ub0 \union Overflowed(neg_val1, 2035)
                     IN  IF test_if_sum_overflows_ull(to_ull(val0), to_ull(neg_val1.v))
                         THEN err(ub) ELSE ok(TRUE, ub)
      ELSE IF a1.unsigned_flag
      THEN LET ub == ub0 \union Overflowed(val0_min, 2045)
           IN  IF to_ull(val0_min.v) < to_ull(val1) THEN err(ub) ELSE ok(FALSE, ub)
      ELSE IF val0 > 0 /\ val1 < 0 THEN ok(TRUE, ub0)
      ELSE IF val0 < 0 /\ val1 > 0 THEN err(ub0)
      ELSE ok(FALSE, ub0)

Item_func_minus_int_op(a0, a1, unsigned_flag, wraps) ==
  LET val0 == a0.val
      val1 == a1.val
      res == Signed(val0 - val1)
      neg_val1 == Signed(-val1)
      val0_min == Signed(val0 - LLONG_MIN)
      ub0 == Overflowed(res, 2003)
      err(ub) == raise_integer_overflow(ub)
      ok(res_unsigned, ub) == check_integer_overflow(res, res_unsigned, unsigned_flag, wraps, ub)
  IN  IF a0.null_value \/ a1.null_value THEN NullReturned(ub0)
      ELSE IF a0.unsigned_flag
      THEN IF a1.unsigned_flag
           THEN IF to_ull(val0) < to_ull(val1)
                THEN IF ~IsNegative(res, wraps) THEN err(ub0) ELSE ok(FALSE, ub0)
                ELSE ok(TRUE, ub0)
           ELSE IF val1 >= 0
                THEN ok(to_ull(val0) > to_ull(val1), ub0)
                ELSE LET ub == ub0 \union Overflowed(neg_val1, 2035)
                     IN  IF test_if_sum_overflows_ull(to_ull(val0), to_ull(neg_val1.v))
                         THEN err(ub) ELSE ok(TRUE, ub)
      ELSE IF a1.unsigned_flag
      THEN LET ub == ub0 \union Overflowed(val0_min, 2045)
           IN  IF to_ull(val0_min.v) < to_ull(val1) THEN err(ub) ELSE ok(FALSE, ub)
      ELSE IF val0 > 0 /\ val1 < 0 THEN ok(TRUE, ub0)
      ELSE IF val0 < 0 /\ val1 > 0 /\ ~IsNegative(res, wraps) THEN err(ub0)
      ELSE ok(FALSE, ub0)

Item_func_mul_int_op(a0, a1, unsigned_flag, wraps) ==
  LET a_negative == ~a0.unsigned_flag /\ a0.val < 0
      b_negative == ~a1.unsigned_flag /\ a1.val < 0
      neg_a == Signed(-a0.val)
      neg_b == Signed(-a1.val)
      a == IF a_negative THEN neg_a.v ELSE a0.val
      b == IF b_negative THEN neg_b.v ELSE a1.val
      ub0 == (IF a_negative THEN Overflowed(neg_a, 2157) ELSE {})
             \union (IF b_negative THEN Overflowed(neg_b, 2162) ELSE {})
      a0_ == to_ull(a) % (ULONG_MASK + 1)
      a1_ == to_ull(a) \div (ULONG_MASK + 1)
      b0_ == to_ull(b) % (ULONG_MASK + 1)
      b1_ == to_ull(b) \div (ULONG_MASK + 1)
      cross == to_ull(a1_ * b0_ + a0_ * b1_)
      res1 == to_ull(cross * (ULONG_MASK + 1))
      res0 == to_ull(a0_ * b0_)
      res == to_ll(res1 + res0)
      neg_res == Signed(-res)
  IN  IF a0.null_value \/ a1.null_value THEN NullReturned({})
      ELSE IF a1_ # 0 /\ b1_ # 0 THEN raise_integer_overflow(ub0)
      ELSE IF cross > ULONG_MASK THEN raise_integer_overflow(ub0)
      ELSE IF test_if_sum_overflows_ull(res1, res0) THEN raise_integer_overflow(ub0)
      ELSE IF a_negative # b_negative
      THEN IF to_ull(res) > to_ull(LLONG_MIN) + 1
           THEN raise_integer_overflow(ub0)
           ELSE check_integer_overflow(neg_res, FALSE, unsigned_flag, wraps,
                                       ub0 \union Overflowed(neg_res, 2188))
      ELSE check_integer_overflow(Plain(res), TRUE, unsigned_flag, wraps, ub0)

\* The pure-integer branch of Item_func_int_div::val_int.
Item_func_int_div_val_int(a0, a1, unsigned_flag, wraps, div_by_zero_mode) ==
  LET val0 == a0.val
      val1 == a1.val
      val0_negative == ~a0.unsigned_flag /\ val0 < 0
      val1_negative == ~a1.unsigned_flag /\ val1 < 0
      res_negative == val0_negative # val1_negative
      uval0 == to_ull(IF val0_negative /\ val0 # LLONG_MIN THEN -val0 ELSE val0)
      uval1 == to_ull(IF val1_negative /\ val1 # LLONG_MIN THEN -val1 ELSE val1)
      res == uval0 \div uval1
  IN  IF a0.null_value \/ a1.null_value THEN NullReturned({})
      ELSE IF val1 = 0 THEN signal_divide_by_null(div_by_zero_mode, {})
      ELSE IF res_negative
      THEN IF res > LLONG_MAX
           THEN raise_integer_overflow({})
           ELSE check_integer_overflow(Plain(-res), FALSE, unsigned_flag, wraps, {})
      ELSE check_integer_overflow(Plain(res), TRUE, unsigned_flag, wraps, {})

\* Item_func_mod::int_op giving the remainder the sign of the divisor.
Item_func_mod_int_op_divisor_sign(a0, a1, unsigned_flag, wraps, div_by_zero_mode) ==
  LET val0 == a0.val
      val1 == a1.val
      val0_negative == ~a0.unsigned_flag /\ val0 < 0
      val1_negative == ~a1.unsigned_flag /\ val1 < 0
      uval0 == to_ull(IF val0_negative /\ val0 # LLONG_MIN THEN -val0 ELSE val0)
      uval1 == to_ull(IF val1_negative /\ val1 # LLONG_MIN THEN -val1 ELSE val1)
      res == uval0 % uval1
      neg_res == Signed(-to_ll(res))
  IN  IF a0.null_value \/ a1.null_value THEN NullReturned({})
      ELSE IF val1 = 0 THEN signal_divide_by_null(div_by_zero_mode, {})
      ELSE IF val1_negative
      THEN check_integer_overflow(neg_res, FALSE, unsigned_flag, wraps, Overflowed(neg_res, 2451))
      ELSE check_integer_overflow(Plain(res), TRUE, unsigned_flag, wraps, {})

\* Item_func_mod::int_op testing the divisor before the NULL operands.
Item_func_mod_int_op_zero_divisor_first(a0, a1, unsigned_flag, wraps, div_by_zero_mode) ==
  LET val0 == a0.val
      val1 == a1.val
      val0_negative == ~a0.unsigned_flag /\ val0 < 0
      val1_negative == ~a1.unsigned_flag /\ val1 < 0
      uval0 == to_ull(IF val0_negative /\ val0 # LLONG_MIN THEN -val0 ELSE val0)
      uval1 == to_ull(IF val1_negative /\ val1 # LLONG_MIN THEN -val1 ELSE val1)
      res == uval0 % uval1
      neg_res == Signed(-to_ll(res))
  IN  IF val1 = 0 THEN signal_divide_by_null(div_by_zero_mode, {})
      ELSE IF a0.null_value \/ a1.null_value THEN NullReturned({})
      ELSE IF val0_negative
      THEN check_integer_overflow(neg_res, FALSE, unsigned_flag, wraps, Overflowed(neg_res, 2451))
      ELSE check_integer_overflow(Plain(res), TRUE, unsigned_flag, wraps, {})

Item_func_mod_int_op(a0, a1, unsigned_flag, wraps, div_by_zero_mode) ==
  LET val0 == a0.val
      val1 == a1.val
      val0_negative == ~a0.unsigned_flag /\ val0 < 0
      val1_negative == ~a1.unsigned_flag /\ val1 < 0
      uval0 == to_ull(IF val0_negative /\ val0 # LLONG_MIN THEN -val0 ELSE val0)
      uval1 == to_ull(IF val1_negative /\ val1 # LLONG_MIN THEN -val1 ELSE val1)
      res == uval0 % uval1
      neg_res == Signed(-to_ll(res))
  IN  IF a0.null_value \/ a1.null_value THEN NullReturned({})
      ELSE IF val1 = 0 THEN signal_divide_by_null(div_by_zero_mode, {})
      ELSE IF val0_negative
      THEN check_integer_overflow(neg_res, FALSE, unsigned_flag, wraps, Overflowed(neg_res, 2451))
      ELSE check_integer_overflow(Plain(res), TRUE, unsigned_flag, wraps, {})

Item_func_neg_int_op(a0, unsigned_flag, wraps) ==
  LET value == a0.val
      neg_value == Signed(-value)
  IN  IF a0.null_value THEN NullReturned({})
      ELSE IF a0.unsigned_flag /\ to_ull(value) > to_ull(LLONG_MAX) + 1
      THEN raise_integer_overflow({})
      ELSE IF value = LLONG_MIN /\ ~a0.unsigned_flag /\ ~unsigned_flag
      THEN raise_integer_overflow({})
      ELSE IF value = LLONG_MIN /\ a0.unsigned_flag /\ ~unsigned_flag
      THEN Returned(LLONG_MIN, {})
      ELSE check_integer_overflow(neg_value, ~a0.unsigned_flag /\ value < 0, unsigned_flag,
                                  wraps, Overflowed(neg_value, 2547))

\* Item_func_abs::int_op without the test for LLONG_MIN.
Item_func_abs_int_op_negates_min(a0, unsigned_flag) ==
  LET value == a0.val
  IN  IF a0.null_value THEN NullReturned({})
      ELSE IF unsigned_flag THEN Returned(value, {})
      ELSE Returned(IF value >= 0 THEN value ELSE to_ll(-value), {})

Item_func_abs_int_op(a0, unsigned_flag) ==
  LET value == a0.val
  IN  IF a0.null_value THEN NullReturned({})
      ELSE IF unsigned_flag THEN Returned(value, {})
      ELSE IF value = LLONG_MIN THEN raise_integer_overflow({})
      ELSE Returned(IF value >= 0 THEN value ELSE -value, {})

-----------------------------------------------------------------------------
(* Decimal and double operators.  A my_decimal or double value is modelled  *)
(* by an integer (the rows of the model carry no fractional digits) and a   *)
(* quotient is cut to an integer.  The decimal library returns a status     *)
(* with every result; st is the status it returns when the divisor is not   *)
(* zero.                                                                    *)

E_DEC_OK == 0
E_DEC_TRUNCATED == 1
E_DEC_OVERFLOW == 2
E_DEC_DIV_ZERO == 4

\* The statuses of an operation that did not divide by zero.
DecimalStatus == {E_DEC_OK, E_DEC_TRUNCATED, E_DEC_OVERFLOW}

\* a / b cut toward zero, b nonzero.
TruncDiv(a, b) ==
  LET q == (IF a < 0 THEN -a ELSE a) \div (IF b < 0 THEN -b ELSE b)
  IN  IF (a < 0) # (b < 0) THEN -q ELSE q

my_decimal_add(a, b, st) == [status |-> st, value |-> a + b]

my_decimal_sub(a, b, st) == [status |-> st, value |-> a - b]

my_decimal_mul(a, b, st) == [status |-> st, value |-> a * b]

my_decimal_div(a, b, st) ==
  IF b = 0 THEN [status |-> E_DEC_DIV_ZERO, value |-> 0]
  ELSE [status |-> st, value |-> TruncDiv(a, b)]

my_decimal_mod(a, b, st) ==
  IF b = 0 THEN [status |-> E_DEC_DIV_ZERO, value |-> 0]
  ELSE [status |-> st, value |-> a - TruncDiv(a, b) * b]

\* my_decimal2int(): the status and the value, cut to the range of the type.
my_decimal2int(d, unsigned_flag) ==
  IF unsigned_flag
  THEN IF d < 0 THEN [status |-> E_DEC_OVERFLOW, value |-> 0]
       ELSE IF d > ULLONG_MAX THEN [status |-> E_DEC_OVERFLOW, value |-> to_ll(ULLONG_MAX)]
       ELSE [status |-> E_DEC_OK, value |-> to_ll(d)]
  ELSE IF d < LLONG_MIN THEN [status |-> E_DEC_OVERFLOW, value |-> LLONG_MIN]
       ELSE IF d > LLONG_MAX THEN [status |-> E_DEC_OVERFLOW, value |-> LLONG_MAX]
       ELSE [status |-> E_DEC_OK, value |-> d]

\* Item::val_decimal() and Item::val_real() of an operand.
val_decimal(a) == IF a.result_type = "INT_RESULT" THEN ArgValue(a) ELSE a.val
val_real(a) == IF a.result_type = "INT_RESULT" THEN ArgValue(a) ELSE a.val

\* check_decimal_overflow(): raise_decimal_overflow() on E_DEC_OVERFLOW.
check_decimal_overflow(status) ==
  IF status = E_DEC_OVERFLOW THEN <<"ER_DATA_OUT_OF_RANGE: DECIMAL">> ELSE <<>>

Item_func_plus_decimal_op(a0, a1, st) ==
  LET d == my_decimal_add(val_decimal(a0), val_decimal(a1), st)
      raised == check_decimal_overflow(d.status)
  IN  IF a0.null_value THEN NullReturned({})
      ELSE IF a1.null_value THEN NullReturned({})
      ELSE IF d.status > 3 THEN NullReturned({})
      ELSE [Returned(d.value, {}) EXCEPT !.errors = raised]

\* On a status above 3, and on a negative result of an unsigned node, the value
\* is set to zero and returned, not a NULL pointer.
Item_func_minus_decimal_op(a0, a1, n, st) ==
  LET d == my_decimal_sub(val_decimal(a0), val_decimal(a1), st)
      raised == check_decimal_overflow(d.status)
  IN  IF a0.null_value THEN NullReturned({})
      ELSE IF a1.null_value THEN NullReturned({})
      ELSE IF d.status > 3 THEN [NullReturned({}) EXCEPT !.errors = raised]
      ELSE IF n.unsigned_flag /\ d.value < 0
      THEN [value |-> 0, null_value |-> n.maybe_null,
            errors |-> raised \o <<"ER_DATA_OUT_OF_RANGE: DECIMAL">>,
            warnings |-> <<>>, ub |-> {}]
      ELSE [Returned(d.value, {}) EXCEPT !.errors = raised]

Item_func_mul_decimal_op(a0, a1, st) ==
  LET d == my_decimal_mul(val_decimal(a0), val_decimal(a1), st)
      raised == check_decimal_overflow(d.status)
  IN  IF a0.null_value THEN NullReturned({})
      ELSE IF a1.null_value THEN NullReturned({})
      ELSE IF d.status > 3 THEN NullReturned({})
      ELSE [Returned(d.value, {}) EXCEPT !.errors = raised]

\* real_op() of +, - and *: the doubles of the rows are far from DBL_MAX, so
\* check_float_overflow() returns the value.
Item_func_plus_real_op(a0, a1) ==
  IF a0.null_value \/ a1.null_value THEN NullReturned({})
  ELSE Returned(val_real(a0) + val_real(a1), {})

Item_func_minus_real_op(a0, a1) ==
  IF a0.null_value \/ a1.null_value THEN NullReturned({})
  ELSE Returned(val_real(a0) - val_real(a1), {})

Item_func_mul_real_op(a0, a1) ==
  IF a0.null_value \/ a1.null_value THEN NullReturned({})
  ELSE Returned(val_real(a0) * val_real(a1), {})

Item_func_div_real_op(a0, a1, mode) ==
  LET val1 == val_real(a0)
      val2 == val_real(a1)
  IN  IF a0.null_value \/ a1.null_value THEN NullReturned({})
      ELSE IF val2 = 0 THEN signal_divide_by_null(mode, {})
      ELSE Returned(TruncDiv(val1, val2), {})

Item_func_div_decimal_op(a0, a1, st, mode) ==
  LET d == my_decimal_div(val_decimal(a0), val_decimal(a1), st)
      raised == check_decimal_overflow(d.status)
  IN  IF a0.null_value THEN NullReturned({})
      ELSE IF a1.null_value THEN NullReturned({})
      ELSE IF d.status > 3
      THEN IF d.status = E_DEC_DIV_ZERO THEN signal_divide_by_null(mode, {})
           ELSE NullReturned({})
      ELSE [Returned(d.value, {}) EXCEPT !.errors = raised]

\* The branch of Item_func_int_div::val_int for an operand that is not an integer.
Item_func_int_div_val_int_decimal(a0, a1, unsigned_flag, st, mode) ==
  LET d == my_decimal_div(val_decimal(a0), val_decimal(a1), st)
      res == my_decimal2int(d.value, unsigned_flag)
  IN  IF a0.null_value THEN NullReturned({})
      ELSE IF a1.null_value THEN NullReturned({})
      ELSE IF d.status > 3
      THEN IF d.status = E_DEC_DIV_ZERO THEN signal_divide_by_null(mode, {})
           ELSE Returned(0, {})
      ELSE IF res.status = E_DEC_OVERFLOW
      THEN [raise_integer_overflow({}) EXCEPT !.value = res.value]
      ELSE Returned(res.value, {})

Item_func_mod_real_op(a0, a1, mode) ==
  LET value1 == val_real(a0)
      val2 == val_real(a1)
  IN  IF a0.null_value \/ a1.null_value THEN NullReturned({})
      ELSE IF val2 = 0 THEN signal_divide_by_null(mode, {})
      ELSE Returned(value1 - TruncDiv(value1, val2) * val2, {})

Item_func_mod_decimal_op(a0, a1, st, mode) ==
  LET d == my_decimal_mod(val_decimal(a0), val_decimal(a1), st)
  IN  IF a0.null_value THEN NullReturned({})
      ELSE IF a1.null_value THEN NullReturned({})
      ELSE IF d.status \in {E_DEC_TRUNCATED, E_DEC_OK} THEN Returned(d.value, {})
      ELSE IF d.status = E_DEC_DIV_ZERO THEN signal_divide_by_null(mode, {})
      ELSE NullReturned({})

Item_func_neg_real_op(a0) ==
  [Returned(-val_real(a0), {}) EXCEPT !.null_value = a0.null_value]

Item_func_neg_decimal_op(a0) ==
  IF ~a0.null_value THEN Returned(-val_decimal(a0), {}) ELSE NullReturned({})

Item_func_abs_real_op(a0) ==
  LET value == val_real(a0)
  IN  [Returned(IF value < 0 THEN -value ELSE value, {}) EXCEPT !.null_value = a0.null_value]

Item_func_abs_decimal_op(a0) ==
  LET value == val_decimal(a0)
  IN  IF ~a0.null_value THEN Returned(IF value < 0 THEN -value ELSE value, {})
      ELSE NullReturned({})

-----------------------------------------------------------------------------
(* Resolution.  An operand item carries result_type, unsigned_flag,         *)
(* decimals, max_length, maybe_null, const_item, type and, per row, val     *)
(* and null_value.  A node is the record of the attributes resolve_type()   *)
(* sets: hybrid_type, unsigned_flag, decimals, max_length, maybe_null.      *)

DECIMAL_MAX_PRECISION == 65
DECIMAL_MAX_SCALE == 30
NOT_FIXED_DEC == 31
DBL_DIG == 15

Max(x, y) == IF x >= y THEN x ELSE y
Min(x, y) == IF x <= y THEN x ELSE y

my_decimal_precision_to_length_no_truncation(precision, scale, unsigned_flag) ==
  precision + (IF scale > 0 THEN 1 ELSE 0) + (IF unsigned_flag \/ precision = 0 THEN 0 ELSE 1)

my_decimal_length_to_precision(length, scale, unsigned_flag) ==
  length - (IF scale > 0 THEN 1 ELSE 0) - (IF unsigned_flag \/ length = 0 THEN 0 ELSE 1)

float_length(decimals_par) ==
  IF decimals_par # NOT_FIXED_DEC THEN DBL_DIG + 2 + decimals_par ELSE DBL_DIG + 8

\* Item::decimal_precision() of an operand.
decimal_precision(a) ==
  IF a.result_type \in {"DECIMAL_RESULT", "INT_RESULT"}
  THEN LET prec == my_decimal_length_to_precision(a.max_length, a.decimals, a.unsigned_flag)
       IN  \* prec is a uint: a negative difference wraps to a value above the maximum
           IF prec < 0 THEN DECIMAL_MAX_PRECISION ELSE Min(prec, DECIMAL_MAX_PRECISION)
  ELSE Min(a.max_length, DECIMAL_MAX_PRECISION)

\* Item::numeric_context_result_type() of a non-temporal operand.
numeric_context_result_type(a) ==
  IF a.result_type = "STRING_RESULT" THEN "REAL_RESULT" ELSE a.result_type

Item_func_additive_op_result_precision(n, as) ==
  LET decimals == Max(as[1].decimals, as[2].decimals)
      arg1_int == decimal_precision(as[1]) - as[1].decimals
      arg2_int == decimal_precision(as[2]) - as[2].decimals
      precision == Max(arg1_int, arg2_int) + 1 + decimals
      unsigned_flag == IF n.hybrid_type = "INT_RESULT"
                       THEN as[1].unsigned_flag \/ as[2].unsigned_flag
                       ELSE as[1].unsigned_flag /\ as[2].unsigned_flag
  IN  [n EXCEPT !.decimals = decimals, !.unsigned_flag = unsigned_flag,
                !.max_length = my_decimal_precision_to_length_no_truncation(precision, decimals, unsigned_flag)]

Item_func_mul_result_precision(n, as) ==
  LET unsigned_flag == IF n.hybrid_type = "INT_RESULT"
                       THEN as[1].unsigned_flag \/ as[2].unsigned_flag
                       ELSE as[1].unsigned_flag /\ as[2].unsigned_flag
      decimals == Min(as[1].decimals + as[2].decimals, DECIMAL_MAX_SCALE)
      est_prec == decimal_precision(as[1]) + decimal_precision(as[2])
      precision == Min(est_prec, DECIMAL_MAX_PRECISION)
  IN  [n EXCEPT !.decimals = decimals, !.unsigned_flag = unsigned_flag,
                !.max_length = my_decimal_precision_to_length_no_truncation(precision, decimals, unsigned_flag)]

Item_func_div_result_precision(n, as, prec_increment) ==
  LET precision == Min(decimal_precision(as[1]) + as[2].decimals + prec_increment,
                       DECIMAL_MAX_PRECISION)
      unsigned_flag == IF n.hybrid_type = "INT_RESULT"
                       THEN as[1].unsigned_flag \/ as[2].unsigned_flag
                       ELSE as[1].unsigned_flag /\ as[2].unsigned_flag
      decimals == Min(as[1].decimals + prec_increment, DECIMAL_MAX_SCALE)
  IN  [n EXCEPT !.decimals = decimals, !.unsigned_flag = unsigned_flag,
                !.max_length = my_decimal_precision_to_length_no_truncation(precision, decimals, unsigned_flag)]

\* Item_func_mod::result_precision growing the width whenever the dividend is signed.
Item_func_mod_result_precision_any_divisor(n, as) ==
  LET decimals == Max(as[1].decimals, as[2].decimals)
      max_length == Max(as[1].max_length, as[2].max_length)
      grow == /\ ~as[1].unsigned_flag
              /\ as[1].max_length <= as[2].max_length
              /\ as[2].decimals = decimal_precision(as[2])
  IN  [n EXCEPT !.decimals = decimals,
                !.max_length = IF grow THEN max_length + 1 ELSE max_length]

Item_func_mod_result_precision(n, as) ==
  LET decimals == Max(as[1].decimals, as[2].decimals)
      max_length == Max(as[1].max_length, as[2].max_length)
      grow == /\ ~as[1].unsigned_flag /\ as[2].unsigned_flag
              /\ as[1].max_length <= as[2].max_length
              /\ as[2].decimals = decimal_precision(as[2])
  IN  [n EXCEPT !.decimals = decimals,
                !.max_length = IF grow THEN max_length + 1 ELSE max_length]

\* The result_precision() override of the operator f.
result_precision(f, n, as, prec_increment) ==
  CASE f \in {"plus", "minus"} -> Item_func_additive_op_result_precision(n, as)
    [] f = "mul" -> Item_func_mul_result_precision(n, as)
    [] f = "div" -> Item_func_div_result_precision(n, as, prec_increment)
    [] f = "mod" -> Item_func_mod_result_precision(n, as)

\* count_real_length(): the decimals it leaves (max_length is overwritten by the caller).
count_real_length(n, as) ==
  [n EXCEPT !.decimals = Max(as[1].decimals, as[2].decimals)]

\* Item_num_op::find_num_type looking for a Decimal in the first operand only.
Item_num_op_find_num_type_first_operand(f, n, as, prec_increment) ==
  LET r0 == numeric_context_result_type(as[1])
      r1 == numeric_context_result_type(as[2])
  IN  IF r0 = "REAL_RESULT" \/ r1 = "REAL_RESULT"
      THEN LET c == count_real_length(n, as)
           IN  [c EXCEPT !.max_length = float_length(c.decimals), !.hybrid_type = "REAL_RESULT"]
      ELSE IF r0 = "DECIMAL_RESULT"
      THEN result_precision(f, [n EXCEPT !.hybrid_type = "DECIMAL_RESULT"], as, prec_increment)
      ELSE result_precision(f, [n EXCEPT !.decimals = 0, !.hybrid_type = "INT_RESULT"], as, prec_increment)

Item_num_op_find_num_type(f, n, as, prec_increment) ==
  LET r0 == numeric_context_result_type(as[1])
      r1 == numeric_context_result_type(as[2])
  IN  IF r0 = "REAL_RESULT" \/ r1 = "REAL_RESULT"
      THEN LET c == count_real_length(n, as)
           IN  [c EXCEPT !.max_length = float_length(c.decimals), !.hybrid_type = "REAL_RESULT"]
      ELSE IF r0 = "DECIMAL_RESULT" \/ r1 = "DECIMAL_RESULT"
      THEN result_precision(f, [n EXCEPT !.hybrid_type = "DECIMAL_RESULT"], as, prec_increment)
      ELSE result_precision(f, [n EXCEPT !.decimals = 0, !.hybrid_type = "INT_RESULT"], as, prec_increment)

Item_func_num1_find_num_type(n, as) ==
  CASE as[1].result_type = "INT_RESULT" ->
         [n EXCEPT !.hybrid_type = "INT_RESULT", !.unsigned_flag = as[1].unsigned_flag]
    [] as[1].result_type \in {"STRING_RESULT", "REAL_RESULT"} ->
         [n EXCEPT !.hybrid_type = "REAL_RESULT", !.max_length = float_length(n.decimals)]
    [] as[1].result_type = "DECIMAL_RESULT" ->
         [n EXCEPT !.hybrid_type = "DECIMAL_RESULT", !.unsigned_flag = as[1].unsigned_flag]

Item_func_num1_fix_num_length_and_dec(n, as) ==
  [n EXCEPT !.decimals = as[1].decimals, !.max_length = as[1].max_length]

Item_func_neg_fix_num_length_and_dec(n, as) ==
  [n EXCEPT !.decimals = as[1].decimals, !.max_length = as[1].max_length + 1]

Item_func_minus_resolve_type(n, as, thd) ==
  LET r == Item_num_op_find_num_type("minus", n, as, thd.div_precincrement)
  IN  IF r.unsigned_flag /\ "MODE_NO_UNSIGNED_SUBTRACTION" \in thd.sql_mode
      THEN [r EXCEPT !.unsigned_flag = FALSE] ELSE r

\* Item_func_div::resolve_type leaving an Integer division Integer.
Item_func_div_resolve_type_keeps_int(n, as, thd) ==
  LET prec_increment == thd.div_precincrement
      r == Item_num_op_find_num_type("div", n, as, prec_increment)
  IN  [(IF r.hybrid_type = "REAL_RESULT"
        THEN [r EXCEPT !.decimals = Min(Max(as[1].decimals, as[2].decimals) + prec_increment,
                                        NOT_FIXED_DEC)]
        ELSE Item_func_div_result_precision(r, as, prec_increment))
       EXCEPT !.maybe_null = TRUE]

Item_func_div_resolve_type(n, as, thd) ==
  LET prec_increment == thd.div_precincrement
      r == Item_num_op_find_num_type("div", n, as, prec_increment)
      t == CASE r.hybrid_type = "REAL_RESULT" ->
                  LET decimals == Min(Max(as[1].decimals, as[2].decimals) + prec_increment,
                                      NOT_FIXED_DEC)
                      tmp == float_length(decimals)
                  IN  [r EXCEPT !.decimals = decimals,
                                !.max_length = IF decimals = NOT_FIXED_DEC THEN tmp
                                               ELSE Min(as[1].max_length - as[1].decimals + decimals, tmp)]
             [] r.hybrid_type = "INT_RESULT" ->
                  Item_func_div_result_precision([r EXCEPT !.hybrid_type = "DECIMAL_RESULT"],
                                                 as, prec_increment)
             [] r.hybrid_type = "DECIMAL_RESULT" ->
                  Item_func_div_result_precision(r, as, prec_increment)
  IN  [t EXCEPT !.maybe_null = TRUE]

MY_INT64_NUM_DECIMAL_DIGITS == 21

Item_func_int_div_resolve_type(n, as) ==
  LET argtype == as[1].result_type
      char_length == as[1].max_length
                     - (IF argtype \in {"DECIMAL_RESULT", "INT_RESULT"} THEN as[1].decimals ELSE 0)
  IN  \* char_length is a uint32: a negative difference wraps to a value above the limit
      [n EXCEPT !.max_length = IF char_length < 0 \/ char_length > MY_INT64_NUM_DECIMAL_DIGITS
                               THEN MY_INT64_NUM_DECIMAL_DIGITS ELSE char_length,
                !.maybe_null = TRUE,
                !.unsigned_flag = as[1].unsigned_flag \/ as[2].unsigned_flag]

Item_func_mod_resolve_type(n, as, thd) ==
  LET r == Item_num_op_find_num_type("mod", n, as, thd.div_precincrement)
  IN  [r EXCEPT !.maybe_null = TRUE, !.unsigned_flag = as[1].unsigned_flag]

Item_func_neg_resolve_type(n, as) ==
  LET r == Item_func_num1_find_num_type(Item_func_neg_fix_num_length_and_dec(n, as), as)
      val == as[1].val
      promote == /\ r.hybrid_type = "INT_RESULT"
                 /\ as[1].const_item
                 /\ to_ull(val) >= to_ull(LLONG_MIN)
                 /\ (to_ull(val) # to_ull(LLONG_MIN) \/ as[1].type # "INT_ITEM")
  IN  [r EXCEPT !.hybrid_type = IF promote THEN "DECIMAL_RESULT" ELSE r.hybrid_type,
                !.unsigned_flag = FALSE]

Item_func_abs_resolve_type(n, as) ==
  LET r == Item_func_num1_find_num_type(Item_func_num1_fix_num_length_and_dec(n, as), as)
  IN  [r EXCEPT !.unsigned_flag = as[1].unsigned_flag]

-----------------------------------------------------------------------------
(* ROUND() and TRUNCATE(): the operator is "round" or "truncate" (the flag  *)
(* truncate of Item_func_round), as[1] is the value and as[2] the decimals  *)
(* argument.  A Decimal or Real value of these operators is fixed-point:    *)
(* val counts units of 10^-FracDigits.  The decimals argument is a small    *)
(* integer, for which -dec does not overflow.                               *)

\* The fractional digits of the Decimal and Real values of ROUND().
FracDigits == 1

INT_MAX == 2147483647
INT_MIN == (-INT_MAX) - 1
DECIMAL_LONGLONG_DIGITS == 22
DBL_MAX_10_EXP == 308

\* The number of decimal digits of the natural number m.
DecimalDigits(m) == CHOOSE n \in 0..9 : m < 10^n /\ (n = 0 \/ m >= 10^(n - 1))

\* log_10_int[]: the powers of ten that fit in a ulonglong (10^0 .. 10^19 for 64 bits).
log_10_int(i) == 10^i

\* array_elements(log_10_int)
log_10_int_elements ==
  CHOOSE n \in 1..(WordBits + 1) : 10^(n - 1) <= ULLONG_MAX /\ 10^n > ULLONG_MAX

\* floor(), ceil() and rint() of the fraction num / den, den > 0; rint() rounds
\* to nearest with ties to even, the rounding mode the program runs in.
floor(num, den) == num \div den

ceil(num, den) == -((-num) \div den)

rint(num, den) ==
  LET q == num \div den
      r == num % den
  IN  IF 2 * r < den THEN q
      ELSE IF 2 * r > den THEN q + 1
      ELSE IF q % 2 = 0 THEN q ELSE q + 1

\* The value of the units v to the precision 10^e units, e > 0, by the rounding
\* function op; a value below a tenth of 10^e goes to zero.
ToPower(op, v, e) ==
  IF e > DecimalDigits(IF v < 0 THEN -v ELSE v) THEN 0
  ELSE CASE op = "floor" -> floor(v, 10^e) * 10^e
         [] op = "ceil" -> ceil(v, 10^e) * 10^e
         [] op = "rint" -> rint(v, 10^e) * 10^e
         [] op = "half_up" -> IF v >= 0 THEN floor(2 * v + 10^e, 2 * 10^e) * 10^e
                              ELSE ceil(2 * v - 10^e, 2 * 10^e) * 10^e

\* val_real() and val_decimal() of an operand in units of 10^-FracDigits.
Units(a) == IF a.result_type = "INT_RESULT" THEN ArgValue(a) * 10^FracDigits ELSE a.val

Item_func_round_resolve_type(n0, as, truncate) ==
  LET n == [n0 EXCEPT !.unsigned_flag = as[1].unsigned_flag]
      val1 == as[2].val
      val1_unsigned == as[2].unsigned_flag
      decimals_to_set == IF val1 < 0 THEN (IF val1_unsigned THEN INT_MAX ELSE 0)
                         ELSE IF val1 > INT_MAX THEN INT_MAX ELSE val1
      real == [n EXCEPT !.hybrid_type = "REAL_RESULT",
                        !.decimals = Min(decimals_to_set, NOT_FIXED_DEC),
                        !.max_length = float_length(Min(decimals_to_set, NOT_FIXED_DEC))]
      length_can_increase == IF ~truncate /\ val1 < 0 /\ ~val1_unsigned THEN 1 ELSE 0
      to_set == Min(DECIMAL_MAX_SCALE, decimals_to_set)
      decimals_delta == as[1].decimals - to_set
      length_increase == IF decimals_delta <= 0 \/ truncate THEN 0 ELSE 1
      precision == decimal_precision(as[1]) - (decimals_delta - length_increase)
  IN  IF ~as[2].const_item
      THEN [n EXCEPT !.decimals = as[1].decimals,
                     !.max_length = float_length(as[1].decimals)
                                    + (IF as[1].result_type = "DECIMAL_RESULT" THEN 1 ELSE 0),
                     !.hybrid_type = IF as[1].result_type = "DECIMAL_RESULT"
                                     THEN "DECIMAL_RESULT" ELSE "REAL_RESULT"]
      ELSE IF as[2].null_value THEN n
      ELSE IF as[1].decimals = NOT_FIXED_DEC THEN real
      ELSE IF as[1].result_type = "REAL_RESULT" THEN real
      ELSE IF /\ as[1].result_type = "INT_RESULT"
              /\ \/ decimals_to_set = 0 /\ truncate
                 \/ decimal_precision(as[1]) < DECIMAL_LONGLONG_DIGITS
      THEN [n EXCEPT !.max_length = as[1].max_length + length_can_increase,
                     !.hybrid_type = "INT_RESULT",
                     !.decimals = 0]
      ELSE [n EXCEPT !.hybrid_type = "DECIMAL_RESULT",
                     !.decimals = Min(to_set, DECIMAL_MAX_SCALE),
                     !.max_length = my_decimal_precision_to_length_no_truncation(
                                       precision, Min(to_set, DECIMAL_MAX_SCALE),
                                       as[1].unsigned_flag)]

\* my_double_round(): tmp is 10^abs_dec, infinite above DBL_MAX_10_EXP, and
\* value * tmp is infinite when its decimal exponent is above DBL_MAX_10_EXP.
my_double_round(v, dec, dec_unsigned, truncate) ==
  LET dec_negative == dec < 0 /\ ~dec_unsigned
      abs_dec == IF dec_negative THEN -dec ELSE dec
      isinf_tmp == abs_dec < 0 \/ abs_dec > DBL_MAX_10_EXP
      isinf_mul == v # 0 /\ (abs_dec < 0 \/ DecimalDigits(IF v < 0 THEN -v ELSE v)
                                           - FracDigits + abs_dec > DBL_MAX_10_EXP + 1)
      isnan_mul == v = 0 /\ isinf_tmp
      \* value / tmp and value * tmp are fractions of a unit of 10^e units
      e == IF dec < 0 THEN FracDigits + abs_dec ELSE FracDigits - abs_dec
      apply(op) == IF e <= 0 THEN v ELSE ToPower(op, v, e)
  IN  IF dec_negative /\ isinf_tmp THEN 0
      ELSE IF ~dec_negative /\ (isinf_mul \/ isnan_mul) THEN v
      ELSE IF truncate
      THEN IF v >= 0 THEN apply("floor") ELSE apply("ceil")
      ELSE apply("rint")

Item_func_round_real_op(a0, a1, truncate) ==
  IF ~(a0.null_value \/ a1.null_value)
  THEN Returned(my_double_round(Units(a0), a1.val, a1.unsigned_flag, truncate), {})
  ELSE NullReturned({})

my_unsigned_round(value, to) ==
  LET tmp == (value \div to) * to
  IN  IF value - tmp < to \div 2 THEN tmp ELSE to_ull(tmp + to)

Item_func_round_int_op(a0, a1, unsigned_flag, truncate) ==
  LET value == a0.val
      dec == a1.val
      abs_dec == -dec
      tmp == to_ll(log_10_int(abs_dec))
      neg_value == Signed(-value)
      rounded == to_ll(my_unsigned_round(to_ull(neg_value.v), to_ull(tmp)))
      neg_rounded == Signed(-rounded)
  IN  IF a0.null_value \/ a1.null_value THEN NullReturned({})
      ELSE IF dec >= 0 \/ a1.unsigned_flag THEN Returned(value, {})
      ELSE IF abs_dec >= log_10_int_elements THEN Returned(0, {})
      ELSE IF truncate
      THEN IF unsigned_flag
           THEN Returned(to_ll((to_ull(value) \div to_ull(tmp)) * to_ull(tmp)), {})
           ELSE Returned(to_ll(TruncDiv(value, tmp) * tmp), {})
      ELSE IF unsigned_flag \/ value >= 0
      THEN Returned(to_ll(my_unsigned_round(to_ull(value), to_ull(tmp))), {})
      ELSE Returned(neg_rounded.v,
                    Overflowed(neg_value, 3542) \union Overflowed(neg_rounded, 3542))

\* my_decimal_round(): the value to scale places, half away from zero, or
\* toward zero when truncate.
my_decimal_round(v, scale, truncate, st) ==
  LET e == FracDigits - scale
  IN  [status |-> st,
       value |-> IF e <= 0 THEN v
                 ELSE IF truncate
                 THEN (IF v >= 0 THEN ToPower("floor", v, e) ELSE ToPower("ceil", v, e))
                 ELSE ToPower("half_up", v, e)]

\* The decimals argument that Item_func_round::decimal_op() passes to
\* my_decimal_round(): min<ulonglong>(dec, decimals) takes decimals when the
\* bits of a negative dec are read as unsigned.
Item_func_round_decimal_op_dec(a1, decimals) ==
  LET dec == a1.val
  IN  IF dec >= 0 \/ a1.unsigned_flag
      THEN (IF dec < 0 THEN decimals ELSE Min(dec, decimals))
      ELSE IF dec < INT_MIN THEN INT_MIN
      ELSE dec

Item_func_round_decimal_op(a0, a1, decimals, truncate, st) ==
  LET d == my_decimal_round(Units(a0), Item_func_round_decimal_op_dec(a1, decimals),
                            truncate, st)
  IN  IF a0.null_value \/ a1.null_value \/ d.status > 1 THEN NullReturned({})
      ELSE Returned(d.value, {})

RoundFuncs == {"round", "truncate"}

\* Item_func_rand::resolve_type(): Item_real_func::resolve_type() gives the node
\* the type of a double without a fixed scale.
Item_func_rand_resolve_type(n, as) ==
  [n EXCEPT !.decimals = NOT_FIXED_DEC, !.max_length = float_length(NOT_FIXED_DEC)]

\* resolve_type() of the operator f.
resolve_type(f, n, as, thd) ==
  CASE f \in {"plus", "mul"} -> Item_num_op_find_num_type(f, n, as, thd.div_precincrement)
    [] f = "minus" -> Item_func_minus_resolve_type(n, as, thd)
    [] f = "div" -> Item_func_div_resolve_type(n, as, thd)
    [] f = "int_div" -> Item_func_int_div_resolve_type(n, as)
    [] f = "mod" -> Item_func_mod_resolve_type(n, as, thd)
    [] f = "neg" -> Item_func_neg_resolve_type(n, as)
    [] f = "abs" -> Item_func_abs_resolve_type(n, as)
    [] f \in RoundFuncs -> Item_func_round_resolve_type(n, as, f = "truncate")
    [] f = "rand" -> Item_func_rand_resolve_type(n, as)

-----------------------------------------------------------------------------
(* The node.                                                                *)

VARIABLES
  phase,          \* "built", "failed" (fix_fields returned true), "resolved" (fixed= true)
                  \* or "evaluated"
  functype,       \* the operator of the node
  args,           \* the operand items
  node,           \* hybrid_type, unsigned_flag, decimals, max_length, maybe_null
  null_value,     \* the node's null_value after the last evaluation
  value,          \* the value the last evaluation returned
  errors,         \* the errors the last evaluation raised with my_error
  warnings,       \* the warnings the last evaluation pushed
  ub,             \* the lines of the signed operations that overflowed in it
  thd,            \* the session: sql_mode and div_precincrement
  signed_wraps,   \* the build's treatment of signed overflow
  calls,          \* the methods of other items the last fix-up or tree operation invoked
  decimal_status, \* the status the decimal library returned to the last evaluation
  returned        \* what the last tree operation returned: 1 or 0 from eq(), the
                  \* item from compile() (0 is the NULL pointer)

vars == <<phase, functype, args, node, null_value, value, errors, warnings, ub, thd, signed_wraps,
          calls, decimal_status, returned>>

BinaryFuncs == {"plus", "minus", "mul", "div", "int_div", "mod"}
UnaryFuncs == {"neg", "abs"}

\* The node as its constructor leaves it: Item_func_numhybrid starts with
\* hybrid_type(REAL_RESULT), an Item_int_func has result_type() INT_RESULT.
Constructed(f) ==
  [hybrid_type |-> IF f = "int_div" THEN "INT_RESULT" ELSE "REAL_RESULT",
   unsigned_flag |-> FALSE, decimals |-> 0, max_length |-> 0, maybe_null |-> FALSE,
   const_item_cache |-> FALSE, used_tables_cache |-> {}, not_null_tables_cache |-> {}]

\* The union of the table maps m(as[i]) of the operands.
TablesOf(as, m(_)) == UNION {m(as[i]) : i \in 1..Len(as)}

\* fix_func_arg() for every operand: maybe_null|= item->maybe_null,
\* used_tables_cache|= item->used_tables(), not_null_tables_cache|=
\* item->not_null_tables(), const_item_cache&= item->const_item().
fix_func_arg(n, as) ==
  [n EXCEPT !.maybe_null = n.maybe_null \/ (\E i \in 1..Len(as) : as[i].maybe_null),
            !.used_tables_cache = n.used_tables_cache \union TablesOf(as, LAMBDA a : a.used_tables),
            !.not_null_tables_cache =
                n.not_null_tables_cache \union TablesOf(as, LAMBDA a : a.not_null_tables),
            !.const_item_cache = n.const_item_cache /\ (\A i \in 1..Len(as) : as[i].const_item)]

\* get_initial_pseudo_tables(): no bit for a deterministic operator,
\* RAND_TABLE_BIT for RAND().
get_initial_pseudo_tables(f) == IF f = "rand" THEN {"RAND_TABLE_BIT"} ELSE {}

\* Item_func::fix_fields() up to the call of resolve_type(): the caches are
\* initialised, then every operand is aggregated by fix_func_arg().
Item_func_fix_fields(f, n, as) ==
  fix_func_arg([n EXCEPT !.used_tables_cache = get_initial_pseudo_tables(f),
                         !.not_null_tables_cache = {},
                         !.const_item_cache = TRUE], as)

\* The table of the columns of the rows the node is evaluated on.
RowTable == {"t1"}

\* An operand item of an integer column or expression with precision digits.
IntItem(u, precision, is_const, item_type, v) ==
  [result_type |-> "INT_RESULT", unsigned_flag |-> u, decimals |-> 0,
   max_length |-> my_decimal_precision_to_length_no_truncation(precision, 0, u),
   maybe_null |-> ~is_const, const_item |-> is_const, type |-> item_type,
   val |-> v, null_value |-> FALSE, field_type |-> "MYSQL_TYPE_LONGLONG",
   used_tables |-> IF is_const THEN {} ELSE RowTable,
   not_null_tables |-> IF is_const THEN {} ELSE RowTable]

\* The decimal digits of a machine word (19 or 20 for 64 bits).
IntDigits == WordBits

SqlModes == SUBSET {"MODE_ERROR_FOR_DIVISION_BY_ZERO", "MODE_NO_UNSIGNED_SUBTRACTION"}

\* An operand item of a GEOMETRY column: a string of at most length bytes.
GeometryItem(length) ==
  [result_type |-> "STRING_RESULT", unsigned_flag |-> FALSE, decimals |-> NOT_FIXED_DEC,
   max_length |-> length, maybe_null |-> TRUE, const_item |-> FALSE, type |-> "FIELD_ITEM",
   val |-> 0, null_value |-> FALSE, field_type |-> "MYSQL_TYPE_GEOMETRY",
   used_tables |-> RowTable, not_null_tables |-> RowTable]

\* func_name() of the operator f.
func_name(f) ==
  CASE f = "plus" -> "+" [] f = "minus" -> "-" [] f = "mul" -> "*" [] f = "div" -> "/"
    [] f = "int_div" -> "DIV" [] f = "mod" -> "%" [] f = "neg" -> "-" [] f = "abs" -> "abs"
    [] f = "round" -> "round" [] f = "truncate" -> "truncate" [] f = "rand" -> "rand"

\* reject_geometry_args() looking at the first operand only.
reject_geometry_args_first_operand(as) ==
  /\ Len(as) > 0
  /\ as[1].result_type # "ROW_RESULT"
  /\ as[1].field_type = "MYSQL_TYPE_GEOMETRY"

\* reject_geometry_args(): TRUE, with the error ER_WRONG_ARGUMENTS, when an operand
\* that is not a row has the field type GEOMETRY.
reject_geometry_args(as) ==
  \E i \in 1..Len(as) :
     as[i].result_type # "ROW_RESULT" /\ as[i].field_type = "MYSQL_TYPE_GEOMETRY"

\* The node as resolve_type() of the operator f leaves it when it returns true
\* on the result of reject_geometry_args(): the assignments before that return.
resolve_type_rejected(f, n, as, session) ==
  CASE f \in BinaryFuncs \ {"int_div"} ->
         Item_num_op_find_num_type(f, n, as, session.div_precincrement)
    [] f = "int_div" -> Item_func_int_div_resolve_type(n, as)
    [] f = "neg" ->
         Item_func_num1_find_num_type(Item_func_neg_fix_num_length_and_dec(n, as), as)
    [] f = "abs" ->
         Item_func_num1_find_num_type(Item_func_num1_fix_num_length_and_dec(n, as), as)
    [] f \in RoundFuncs -> [n EXCEPT !.unsigned_flag = as[1].unsigned_flag]
    [] f = "rand" -> Item_func_rand_resolve_type(n, as)

\* resolve_type() reading its first operand with val_int() whatever the operand is.
resolve_type_calls_any_operand(f, n, as) ==
  IF Len(as) > 0 THEN <<[item |-> 1, method |-> "val_int"]>> ELSE <<>>

\* The value-evaluation methods resolve_type() of the operator f invokes on its
\* operands: Item_func_neg::resolve_type() reads a constant operand of an Integer
\* negation with args[0]->val_int(), Item_func_round::resolve_type() reads a
\* constant decimals argument with args[1]->val_int().
resolve_type_calls(f, n, as) ==
  CASE f = "neg" ->
         IF /\ Item_func_num1_find_num_type(n, as).hybrid_type = "INT_RESULT"
            /\ as[1].const_item
         THEN <<[item |-> 1, method |-> "val_int"]>> ELSE <<>>
    [] f \in RoundFuncs ->
         IF as[2].const_item THEN <<[item |-> 2, method |-> "val_int"]>> ELSE <<>>
    [] OTHER -> <<>>

\* Item_func::fix_fields(): the operands are aggregated, then resolve_type(); when
\* it returns true, the error is raised and fixed stays false.
Resolve ==
  /\ phase = "built"
  /\ node = Constructed(functype)
  /\ LET n == Item_func_fix_fields(functype, node, args)
     IN  IF reject_geometry_args(args)
         THEN /\ node' = resolve_type_rejected(functype, n, args, thd)
              /\ errors' = <<"ER_WRONG_ARGUMENTS: " \o func_name(functype)>>
              /\ calls' = <<>>
              /\ phase' = "failed"
         ELSE /\ node' = resolve_type(functype, n, args, thd)
              /\ errors' = errors
              /\ calls' = resolve_type_calls(functype, n, args)
              /\ phase' = "resolved"
  /\ UNCHANGED <<functype, args, null_value, value, warnings, ub, thd, signed_wraps,
                 decimal_status, returned>>

\* int_op() of the operator f, or Item_func_int_div::val_int().
int_op(f, as, unsigned_flag, wraps, mode) ==
  CASE f = "plus" -> Item_func_plus_int_op(as[1], as[2], unsigned_flag, wraps)
    [] f = "minus" -> Item_func_minus_int_op(as[1], as[2], unsigned_flag, wraps)
    [] f = "mul" -> Item_func_mul_int_op(as[1], as[2], unsigned_flag, wraps)
    [] f = "int_div" -> Item_func_int_div_val_int(as[1], as[2], unsigned_flag, wraps, mode)
    [] f = "mod" -> Item_func_mod_int_op(as[1], as[2], unsigned_flag, wraps, mode)
    [] f = "neg" -> Item_func_neg_int_op(as[1], unsigned_flag, wraps)
    [] f = "abs" -> Item_func_abs_int_op(as[1], unsigned_flag)
    [] f \in RoundFuncs -> Item_func_round_int_op(as[1], as[2], unsigned_flag, f = "truncate")

\* decimal_op() of the operator f.
decimal_op(f, as, n, st, mode) ==
  CASE f = "plus" -> Item_func_plus_decimal_op(as[1], as[2], st)
    [] f = "minus" -> Item_func_minus_decimal_op(as[1], as[2], n, st)
    [] f = "mul" -> Item_func_mul_decimal_op(as[1], as[2], st)
    [] f = "div" -> Item_func_div_decimal_op(as[1], as[2], st, mode)
    [] f = "mod" -> Item_func_mod_decimal_op(as[1], as[2], st, mode)
    [] f = "neg" -> Item_func_neg_decimal_op(as[1])
    [] f = "abs" -> Item_func_abs_decimal_op(as[1])
    [] f \in RoundFuncs ->
         Item_func_round_decimal_op(as[1], as[2], n.decimals, f = "truncate", st)

\* real_op() of the operator f.
real_op(f, as, mode) ==
  CASE f = "plus" -> Item_func_plus_real_op(as[1], as[2])
    [] f = "minus" -> Item_func_minus_real_op(as[1], as[2])
    [] f = "mul" -> Item_func_mul_real_op(as[1], as[2])
    [] f = "div" -> Item_func_div_real_op(as[1], as[2], mode)
    [] f = "mod" -> Item_func_mod_real_op(as[1], as[2], mode)
    [] f = "neg" -> Item_func_neg_real_op(as[1])
    [] f = "abs" -> Item_func_abs_real_op(as[1])
    [] f \in RoundFuncs -> Item_func_round_real_op(as[1], as[2], f = "truncate")

\* The evaluation of the node in its own category: Item_func_int_div::val_int(),
\* or the hybrid_type switch of Item_func_numhybrid::val_int()/val_decimal()/val_real().
Item_func_val(f, as, n, st, wraps, mode) ==
  IF f = "int_div"
  THEN IF as[1].result_type # "INT_RESULT" \/ as[2].result_type # "INT_RESULT"
       THEN Item_func_int_div_val_int_decimal(as[1], as[2], n.unsigned_flag, st, mode)
       ELSE int_op(f, as, n.unsigned_flag, wraps, mode)
  ELSE CASE n.hybrid_type = "DECIMAL_RESULT" -> decimal_op(f, as, n, st, mode)
         [] n.hybrid_type = "INT_RESULT" -> int_op(f, as, n.unsigned_flag, wraps, mode)
         [] n.hybrid_type = "REAL_RESULT" -> real_op(f, as, mode)

\* Item_func_round::int_op() storing the decimals argument in the node.
Item_func_round_int_op_decimals_from_argument(n, as) ==
  [n EXCEPT !.decimals = IF as[2].null_value \/ as[2].val < 0 THEN NOT_FIXED_DEC ELSE as[2].val]

\* Item_func_round::int_op(): "decimals= 0;", the only assignment an evaluation
\* makes to an attribute of the resolved type.
Item_func_round_int_op_decimals(n, as) ==
  [n EXCEPT !.decimals = 0]

\* The node after an evaluation in its own category: int_op() of ROUND() and
\* TRUNCATE() writes decimals, no other evaluation writes to the resolved type.
Item_func_val_node(f, n, as) ==
  IF f \in RoundFuncs /\ n.hybrid_type = "INT_RESULT"
  THEN Item_func_round_int_op_decimals(n, as)
  ELSE n

\* The largest magnitude of a decimal or double row value.
ValueBound == 2

\* The words at the ends of the signed range and around zero.
KeyWords == {LLONG_MIN, -1, 0, 1, LLONG_MAX}

NullRow == [val |-> 0, null_value |-> TRUE]

\* The values an operand can take on a row: NULL, or a value of its type.
Rows(a, words) ==
  IF a.result_type = "INT_RESULT"
  THEN [val : words, null_value : {FALSE}] \union {NullRow}
  ELSE [val : (-ValueBound) .. ValueBound, null_value : {FALSE}] \union {NullRow}

\* The operands on a row: a constant item keeps its value.
OnRow(as, rows) ==
  [i \in 1..Len(as) |->
     IF as[i].const_item THEN as[i]
     ELSE [as[i] EXCEPT !.val = rows[i].val, !.null_value = rows[i].null_value]]

Store(r) ==
  /\ value' = r.value
  /\ null_value' = r.null_value
  /\ errors' = r.errors
  /\ warnings' = r.warnings
  /\ ub' = r.ub

\* The statuses the decimal library can return to the node: it is called by
\* decimal_op() and by the decimal branch of Item_func_int_div::val_int().
Statuses(f, as, n) ==
  IF \/ f # "int_div" /\ n.hybrid_type = "DECIMAL_RESULT"
     \/ f = "int_div" /\ \E i \in 1..Len(as) : as[i].result_type # "INT_RESULT"
  THEN DecimalStatus ELSE {E_DEC_OK}

\* One evaluation of the resolved node on a row whose integer operands are in words.
EvaluateOn(words) ==
  /\ phase = "resolved"
  /\ \E r1 \in Rows(args[1], words), r2 \in Rows(args[Len(args)], words),
        st \in Statuses(functype, args, node) :
       /\ args' = OnRow(args, IF Len(args) = 1 THEN <<r1>> ELSE <<r1, r2>>)
       /\ Store(Item_func_val(functype, args', node, st, signed_wraps,
                              "MODE_ERROR_FOR_DIVISION_BY_ZERO" \in thd.sql_mode))
       /\ decimal_status' = st
  /\ node' = Item_func_val_node(functype, node, args')
  /\ phase' = "evaluated"
  /\ UNCHANGED <<functype, thd, signed_wraps, calls, returned>>

\* Evaluation over every machine word.
EvaluateInt == EvaluateOn(LongLong)

\* Evaluation over the key words.
Evaluate == EvaluateOn(KeyWords)

Unevaluated ==
  /\ phase = "built"
  /\ node = Constructed(functype)
  /\ null_value = FALSE
  /\ value = 0
  /\ errors = <<>>
  /\ warnings = <<>>
  /\ ub = {}
  /\ calls = <<>>
  /\ decimal_status = E_DEC_OK
  /\ returned = 0

\* A session value of div_precision_increment between its extremes.
MidPrecIncrement == 4

\* Integer operator nodes over non-constant integer operands.
InitInt ==
  /\ functype \in (BinaryFuncs \ {"div"}) \union UnaryFuncs
  /\ \E u0, u1 \in BOOLEAN :
       args = IF functype \in UnaryFuncs
              THEN <<IntItem(u0, IntDigits, FALSE, "FIELD_ITEM", 0)>>
              ELSE <<IntItem(u0, IntDigits, FALSE, "FIELD_ITEM", 0),
                     IntItem(u1, IntDigits, FALSE, "FIELD_ITEM", 0)>>
  /\ Unevaluated
  /\ thd \in [sql_mode : SqlModes, div_precincrement : {MidPrecIncrement}]
  /\ signed_wraps \in BOOLEAN

NextInt == Resolve \/ EvaluateInt

SpecInt == InitInt /\ [][NextInt]_vars

\* An operand item of a DECIMAL(precision, scale) column or expression.
DecimalItem(u, precision, scale) ==
  [result_type |-> "DECIMAL_RESULT", unsigned_flag |-> u, decimals |-> scale,
   max_length |-> my_decimal_precision_to_length_no_truncation(precision, scale, u),
   maybe_null |-> TRUE, const_item |-> FALSE, type |-> "FIELD_ITEM",
   val |-> 0, null_value |-> FALSE, field_type |-> "MYSQL_TYPE_NEWDECIMAL",
   used_tables |-> RowTable, not_null_tables |-> RowTable]

\* An operand item of a DOUBLE column or expression.
RealItem(scale) ==
  [result_type |-> "REAL_RESULT", unsigned_flag |-> FALSE, decimals |-> scale,
   max_length |-> float_length(scale),
   maybe_null |-> TRUE, const_item |-> FALSE, type |-> "FIELD_ITEM",
   val |-> 0, null_value |-> FALSE, field_type |-> "MYSQL_TYPE_DOUBLE",
   used_tables |-> RowTable, not_null_tables |-> RowTable]

\* Operands that vary with the row, one or two for each category.
RowItems ==
  {IntItem(u, IntDigits, FALSE, "FIELD_ITEM", 0) : u \in BOOLEAN}
  \union {DecimalItem(u, IntDigits, 0) : u \in BOOLEAN}
  \union {RealItem(NOT_FIXED_DEC)}

\* Constant integer operands: a literal (INT_ITEM) or a constant expression.
ConstItems ==
  {IntItem(u, IntDigits, TRUE, t, v) :
     u \in BOOLEAN, t \in {"INT_ITEM", "FUNC_ITEM"}, v \in KeyWords}

\* Division, modulo, negation and absolute value nodes over operands of every category.
Init ==
  /\ functype \in {"div", "int_div", "mod", "neg", "abs"}
  /\ IF functype \in UnaryFuncs
     THEN \E a \in RowItems \union ConstItems : args = <<a>>
     ELSE \E a, b \in RowItems : args = <<a, b>>
  /\ Unevaluated
  /\ thd \in [sql_mode : SUBSET {"MODE_ERROR_FOR_DIVISION_BY_ZERO"},
              div_precincrement : {MidPrecIncrement}]
  /\ signed_wraps \in BOOLEAN

Next == Resolve \/ Evaluate

Spec == Init /\ [][Next]_vars

\* Operands of the exact categories that vary with the row.
ExactRowItems ==
  {IntItem(u, IntDigits, FALSE, "FIELD_ITEM", 0) : u \in BOOLEAN}
  \union {DecimalItem(u, IntDigits, 0) : u \in BOOLEAN}

\* Binary arithmetic nodes over operands of which one at least is Decimal.
InitDecimal ==
  /\ functype \in {"plus", "minus", "mul", "div", "mod"}
  /\ \E a, b \in ExactRowItems :
       /\ "DECIMAL_RESULT" \in {a.result_type, b.result_type}
       /\ args = <<a, b>>
  /\ Unevaluated
  /\ thd \in [sql_mode : SqlModes, div_precincrement : {MidPrecIncrement}]
  /\ signed_wraps = TRUE

NextDecimal == Resolve \/ Evaluate

SpecDecimal == InitDecimal /\ [][NextDecimal]_vars

\* The decimals arguments of ROUND(): around zero and around the scale limits.
PlacesSpan == 2

RoundPlaces ==
  {-(DECIMAL_MAX_SCALE + 1), -DECIMAL_MAX_SCALE} \union ((-PlacesSpan) .. PlacesSpan)
  \union {DECIMAL_MAX_SCALE, DECIMAL_MAX_SCALE + 1}

\* The Decimal and Real values of ROUND() lie between -3 and 3.
RoundBound == 3 * 10^FracDigits

\* The value operands of ROUND(): a column of each category.
RoundValueItems ==
  {IntItem(u, IntDigits, FALSE, "FIELD_ITEM", 0) : u \in BOOLEAN}
  \union {DecimalItem(u, DecimalDigits(RoundBound), FracDigits) : u \in BOOLEAN}
  \union {RealItem(FracDigits)}

\* The decimals operands of ROUND(): an integer literal or an integer column.
RoundPlacesItems ==
  {IntItem(u, IntDigits, TRUE, "INT_ITEM", v) : u \in BOOLEAN, v \in RoundPlaces}
  \union {IntItem(u, IntDigits, FALSE, "FIELD_ITEM", 0) : u \in BOOLEAN}

\* ROUND() and TRUNCATE() nodes over a value of every category.
InitRound ==
  /\ functype \in RoundFuncs
  /\ \E x \in RoundValueItems, d \in RoundPlacesItems : args = <<x, d>>
  /\ Unevaluated
  /\ thd \in [sql_mode : {{}}, div_precincrement : {MidPrecIncrement}]
  /\ signed_wraps = TRUE

\* The values the operands of ROUND() can take on a row.
RoundRows(as) ==
  [i \in 1..2 |->
     IF i = 2 THEN [val : RoundPlaces, null_value : {FALSE}] \union {NullRow}
     ELSE IF as[1].result_type = "INT_RESULT"
     THEN [val : LongLong, null_value : {FALSE}] \union {NullRow}
     ELSE [val : IF as[1].unsigned_flag THEN 0 .. RoundBound
                 ELSE (-RoundBound) .. RoundBound,
           null_value : {FALSE}] \union {NullRow}]

\* One evaluation of the resolved ROUND() node on a row.
EvaluateRound ==
  /\ phase = "resolved"
  /\ \E r1 \in RoundRows(args)[1], r2 \in RoundRows(args)[2],
        st \in Statuses(functype, args, node) :
       /\ args' = OnRow(args, <<r1, r2>>)
       /\ Store(Item_func_val(functype, args', node, st, signed_wraps, FALSE))
       /\ decimal_status' = st
  /\ node' = Item_func_val_node(functype, node, args')
  /\ phase' = "evaluated"
  /\ UNCHANGED <<functype, thd, signed_wraps, calls, returned>>

NextRound == Resolve \/ EvaluateRound

SpecRound == InitRound /\ [][NextRound]_vars

\* The operator node f over the operands as, resolved, as an operand of another
\* node: the item keeps its operator and its operands.
FuncItem(f, as, t) ==
  LET n == resolve_type(f, Item_func_fix_fields(f, Constructed(f), as), as, t)
  IN  [result_type |-> n.hybrid_type, unsigned_flag |-> n.unsigned_flag,
       decimals |-> n.decimals, max_length |-> n.max_length,
       maybe_null |-> n.maybe_null, const_item |-> n.const_item_cache, type |-> "FUNC_ITEM",
       val |-> 0, null_value |-> FALSE, functype |-> f, args |-> as,
       field_type |-> CASE n.hybrid_type = "INT_RESULT" -> "MYSQL_TYPE_LONGLONG"
                        [] n.hybrid_type = "DECIMAL_RESULT" -> "MYSQL_TYPE_NEWDECIMAL"
                        [] n.hybrid_type = "REAL_RESULT" -> "MYSQL_TYPE_DOUBLE",
       used_tables |-> n.used_tables_cache, not_null_tables |-> n.not_null_tables_cache]

\* The node of the expression (a + b) - b over two signed integer columns.
InitNested ==
  /\ functype = "minus"
  /\ thd \in [sql_mode : SqlModes, div_precincrement : {MidPrecIncrement}]
  /\ LET a == IntItem(FALSE, IntDigits, FALSE, "FIELD_ITEM", 0)
         b == IntItem(FALSE, IntDigits, FALSE, "FIELD_ITEM", 0)
     IN  args = <<FuncItem("plus", <<a, b>>, thd), b>>
  /\ Unevaluated
  /\ signed_wraps \in BOOLEAN

\* The descriptor of an operator node used as an operand.
ItemNode(a) ==
  [hybrid_type |-> a.result_type, unsigned_flag |-> a.unsigned_flag,
   decimals |-> a.decimals, max_length |-> a.max_length, maybe_null |-> a.maybe_null,
   const_item_cache |-> a.const_item, used_tables_cache |-> a.used_tables,
   not_null_tables_cache |-> a.not_null_tables]

\* One evaluation of a node over an operator node on a row: args[0]->val_int()
\* of the outer node evaluates the inner node on the row, then the outer operator
\* is applied to its result and to the second operand of the inner node.
EvaluateNested ==
  /\ phase = "resolved"
  /\ \E r1 \in Rows(args[1].args[1], LongLong), r2 \in Rows(args[1].args[2], LongLong) :
       LET inner == OnRow(args[1].args, <<r1, r2>>)
           mode == "MODE_ERROR_FOR_DIVISION_BY_ZERO" \in thd.sql_mode
           ri == Item_func_val(args[1].functype, inner, ItemNode(args[1]), E_DEC_OK,
                               signed_wraps, mode)
           evaluated == <<[args[1] EXCEPT !.val = ri.value, !.null_value = ri.null_value,
                                          !.args = inner],
                          inner[2]>>
           ro == Item_func_val(functype, evaluated, node, E_DEC_OK, signed_wraps, mode)
       IN  /\ args' = evaluated
           /\ Store([ro EXCEPT !.errors = ri.errors \o ro.errors,
                               !.warnings = ri.warnings \o ro.warnings,
                               !.ub = ri.ub \union ro.ub])
           /\ decimal_status' = E_DEC_OK
  /\ node' = Item_func_val_node(functype, node, args')
  /\ phase' = "evaluated"
  /\ UNCHANGED <<functype, thd, signed_wraps, calls, returned>>

NextNested == Resolve \/ EvaluateNested

SpecNested == InitNested /\ [][NextNested]_vars

\* The node of ROUND(ROUND(x, d), d), or of TRUNCATE(TRUNCATE(x, d), d), over an
\* integer column x and an integer literal d.
InitRoundTwice ==
  /\ functype \in RoundFuncs
  /\ thd \in [sql_mode : {{}}, div_precincrement : {MidPrecIncrement}]
  /\ \E u0, u1 \in BOOLEAN, v \in RoundPlaces :
       LET x == IntItem(u0, IntDigits, FALSE, "FIELD_ITEM", 0)
           d == IntItem(u1, IntDigits, TRUE, "INT_ITEM", v)
       IN  args = <<FuncItem(functype, <<x, d>>, thd), d>>
  /\ Unevaluated
  /\ signed_wraps = TRUE

SpecRoundTwice == InitRoundTwice /\ [][NextNested]_vars

\* The precisions and scales of the operands of the resolved nodes: the
\* smallest ones and the ones next to the maxima.
PrecisionSpan == 2
ScaleSpan == 1

Precisions == (1 .. PrecisionSpan)
              \union ((DECIMAL_MAX_PRECISION - PrecisionSpan + 1) .. DECIMAL_MAX_PRECISION)
Scales == (0 .. ScaleSpan) \union ((DECIMAL_MAX_SCALE - ScaleSpan) .. DECIMAL_MAX_SCALE)

\* Operand descriptors of every category: 0 <= scale <= precision <= 65, scale <= 30.
TypedItems ==
  {IntItem(u, p, FALSE, "FIELD_ITEM", 0) : u \in BOOLEAN, p \in 1 .. PrecisionSpan}
  \union {IntItem(u, MY_INT64_NUM_DECIMAL_DIGITS - 1, FALSE, "FIELD_ITEM", 0) : u \in BOOLEAN}
  \union {DecimalItem(u, ps[1], ps[2]) :
            u \in BOOLEAN, ps \in {x \in Precisions \X Scales : x[2] <= x[1]}}
  \union {RealItem(d) : d \in {0, ScaleSpan, NOT_FIXED_DEC}}

\* The values of div_precision_increment: its least, its default and its greatest.
PrecIncrements == {0, MidPrecIncrement, DECIMAL_MAX_SCALE}

\* Binary operator nodes over operands of every category, precision and scale.
InitResolve ==
  /\ functype \in {"plus", "minus", "mul", "div", "mod"}
  /\ \E a, b \in TypedItems : args = <<a, b>>
  /\ Unevaluated
  /\ thd \in [sql_mode : SUBSET {"MODE_NO_UNSIGNED_SUBTRACTION"},
              div_precincrement : PrecIncrements]
  /\ signed_wraps = TRUE

NextResolve == Resolve

SpecResolve == InitResolve /\ [][NextResolve]_vars

-----------------------------------------------------------------------------
(* The node evaluated on one row after another.                             *)

\* The decimals operands of ROUND() evaluated row after row: the literals
\* around zero and an integer column.
AgainPlacesItems ==
  {IntItem(FALSE, IntDigits, TRUE, "INT_ITEM", v) : v \in {-1, 0, 1}}
  \union {IntItem(FALSE, IntDigits, FALSE, "FIELD_ITEM", 0)}

\* The nodes of every operator over columns of one category, whatever their signs.
InitAgain ==
  /\ functype \in BinaryFuncs \union UnaryFuncs \union RoundFuncs
  /\ CASE functype \in BinaryFuncs ->
            \E a, b \in RowItems : a.result_type = b.result_type /\ args = <<a, b>>
       [] functype \in UnaryFuncs -> \E a \in RowItems : args = <<a>>
       [] functype \in RoundFuncs ->
            \E x \in RoundValueItems, d \in AgainPlacesItems : args = <<x, d>>
  /\ Unevaluated
  /\ thd = [sql_mode |-> {"MODE_ERROR_FOR_DIVISION_BY_ZERO"},
            div_precincrement |-> MidPrecIncrement]
  /\ signed_wraps \in BOOLEAN

\* null_value after an evaluation if the operators assigned it only when an
\* operand is NULL or the divisor zero.
null_value_sticky(r, previous) == r.null_value \/ previous

\* null_value after an evaluation that follows one that left it as previous:
\* every int_op(), decimal_op(), real_op() and Item_func_int_div::val_int()
\* assigns null_value from the null_value of its operands before it returns.
null_value_assigned(r, previous) == r.null_value

\* One evaluation of the node on a row, the first or a later one.
EvaluateAgain ==
  /\ phase \in {"resolved", "evaluated"}
  /\ \E r1 \in Rows(args[1], KeyWords), r2 \in Rows(args[Len(args)], KeyWords),
        st \in Statuses(functype, args, node) :
       /\ args' = OnRow(args, IF Len(args) = 1 THEN <<r1>> ELSE <<r1, r2>>)
       /\ LET r == Item_func_val(functype, args', node, st, signed_wraps,
                                 "MODE_ERROR_FOR_DIVISION_BY_ZERO" \in thd.sql_mode)
          IN  /\ value' = r.value
              /\ null_value' = null_value_assigned(r, null_value)
              /\ errors' = r.errors
              /\ warnings' = r.warnings
              /\ ub' = r.ub
       /\ decimal_status' = st
  /\ node' = Item_func_val_node(functype, node, args')
  /\ phase' = "evaluated"
  /\ UNCHANGED <<functype, thd, signed_wraps, calls, returned>>

NextAgain == Resolve \/ EvaluateAgain

SpecAgain == InitAgain /\ [][NextAgain]_vars

-----------------------------------------------------------------------------
(* The expression tree substrate: the node over operands that are columns   *)
(* of two tables, outer references, constants or operator nodes, and the    *)
(* passes of the optimizer over it.                                         *)

Tables == {"t1", "t2"}

\* A column of the table t, or an outer reference to it: the item remembers the
\* map of its table.
Column(a, t, nullable, outer) ==
  [x \in DOMAIN a \union {"map"} |->
     CASE x = "map" -> {t}
       [] x = "maybe_null" -> nullable
       [] x \in {"used_tables", "not_null_tables"} ->
            IF outer THEN {"OUTER_REF_TABLE_BIT"} ELSE {t}
       [] OTHER -> a[x]]

IsColumn(a) == "map" \in DOMAIN a
IsFunc(a) == "args" \in DOMAIN a

\* The session of the statement the tree belongs to.
TreeSession == [sql_mode |-> {}, div_precincrement |-> MidPrecIncrement]

\* The columns of every category, the outer references to an integer column,
\* and two integer literals: a value and NULL.
TreeLeaves ==
  {Column(a, t, nullable, FALSE) :
     a \in {IntItem(FALSE, IntDigits, FALSE, "FIELD_ITEM", 0), DecimalItem(FALSE, IntDigits, 0),
            RealItem(NOT_FIXED_DEC)},
     t \in Tables, nullable \in BOOLEAN}
  \union {Column(IntItem(FALSE, IntDigits, FALSE, "FIELD_ITEM", 0), t, TRUE, TRUE) : t \in Tables}
  \union {[IntItem(FALSE, IntDigits, TRUE, "INT_ITEM", 1) EXCEPT !.maybe_null = nullable] :
            nullable \in BOOLEAN}

\* The operands of the inner operator nodes: the integer columns that are not
\* nullable, the outer references and the literal that is not NULL.
InnerLeaves ==
  {a \in TreeLeaves : /\ a.result_type = "INT_RESULT"
                      /\ (a.maybe_null => a.used_tables = {"OUTER_REF_TABLE_BIT"})}

\* The operands of the node: leaves, sums of a leaf and a literal, and columns
\* of the type GEOMETRY.
TreeItems ==
  TreeLeaves
  \union {FuncItem("plus", <<a, IntItem(FALSE, IntDigits, TRUE, "INT_ITEM", 1)>>, TreeSession) :
            a \in InnerLeaves}
  \union {Column(GeometryItem(IntDigits), t, TRUE, FALSE) : t \in Tables}

TreeFuncs == BinaryFuncs \union UnaryFuncs \union RoundFuncs \union {"rand"}

InitTree ==
  /\ functype \in TreeFuncs
  /\ CASE functype \in BinaryFuncs \union RoundFuncs -> \E a, b \in TreeItems : args = <<a, b>>
       [] functype \in UnaryFuncs -> \E a \in TreeItems : args = <<a>>
       [] functype = "rand" -> args = <<>> \/ \E a \in TreeItems : args = <<a>>
  /\ Unevaluated
  /\ thd = TreeSession
  /\ signed_wraps = TRUE

\* Item_func::update_used_tables() accumulating on the caches it finds.
Item_func_update_used_tables_accumulating(f, n, as) ==
  [n EXCEPT !.used_tables_cache = n.used_tables_cache \union TablesOf(as, LAMBDA a : a.used_tables),
            !.const_item_cache = n.const_item_cache /\ \A i \in 1..Len(as) : as[i].const_item]

\* Item_func::update_used_tables() over operands that have been updated:
\* used_tables_cache and const_item_cache are initialised and aggregated again.
Item_func_update_used_tables(f, n, as) ==
  [n EXCEPT !.used_tables_cache =
                get_initial_pseudo_tables(f) \union TablesOf(as, LAMBDA a : a.used_tables),
            !.const_item_cache = \A i \in 1..Len(as) : as[i].const_item]

\* The operator node a, an operand of another node, with the caches of n.
WithCaches(a, as, n) ==
  [a EXCEPT !.args = as, !.used_tables = n.used_tables_cache,
            !.not_null_tables = n.not_null_tables_cache, !.const_item = n.const_item_cache]

\* update_used_tables() of an operand when the tables const_tables have been
\* read as constant tables: a column of such a table is a constant, an operator
\* node updates its operands and itself.
RECURSIVE update_used_tables(_, _)
update_used_tables(a, const_tables) ==
  IF IsFunc(a)
  THEN LET as == [i \in 1..Len(a.args) |-> update_used_tables(a.args[i], const_tables)]
       IN  WithCaches(a, as, Item_func_update_used_tables(a.functype, ItemNode(a), as))
  ELSE IF IsColumn(a) /\ a.used_tables \subseteq const_tables
  THEN [a EXCEPT !.used_tables = {}, !.not_null_tables = {}, !.const_item = TRUE]
  ELSE a

\* Item_func::update_used_tables() of the node.
UpdateUsedTables ==
  /\ phase \in {"resolved", "updated", "pulled"}
  /\ \E const_tables \in SUBSET Tables :
       args' = [i \in 1..Len(args) |-> update_used_tables(args[i], const_tables)]
  /\ node' = Item_func_update_used_tables(functype, node, args')
  /\ calls' = [i \in 1..Len(args) |-> [item |-> i, method |-> "update_used_tables"]]
  /\ phase' = "updated"
  /\ UNCHANGED <<functype, null_value, value, errors, warnings, ub, thd, signed_wraps,
                 decimal_status, returned>>

\* Item_func::fix_after_pullout() of a node that is not constant, over operands
\* that have been fixed: the three caches are initialised and aggregated again.
Item_func_fix_after_pullout(f, n, as) ==
  [n EXCEPT !.used_tables_cache =
                get_initial_pseudo_tables(f) \union TablesOf(as, LAMBDA a : a.used_tables),
            !.not_null_tables_cache = TablesOf(as, LAMBDA a : a.not_null_tables),
            !.const_item_cache = \A i \in 1..Len(as) : as[i].const_item]

\* const_item() of the node n when Item_func::fix_after_pullout() ignores it.
const_item_ignored(n) == FALSE

\* const_item() of the node n.
const_item(n) == n.const_item_cache

\* fix_after_pullout() of an operand when the subquery of the tables pulled is
\* merged into its parent: an outer reference to such a table is a column of
\* it, an operator node that is not constant fixes its operands and itself.
RECURSIVE fix_after_pullout(_, _)
fix_after_pullout(a, pulled) ==
  IF IsFunc(a)
  THEN IF const_item(ItemNode(a)) THEN a
       ELSE LET as == [i \in 1..Len(a.args) |-> fix_after_pullout(a.args[i], pulled)]
            IN  WithCaches(a, as, Item_func_fix_after_pullout(a.functype, ItemNode(a), as))
  ELSE IF IsColumn(a) /\ a.used_tables = {"OUTER_REF_TABLE_BIT"} /\ a.map \subseteq pulled
  THEN [a EXCEPT !.used_tables = a.map, !.not_null_tables = a.map]
  ELSE a

\* Item_func::fix_after_pullout() of the node.
FixAfterPullout ==
  /\ phase \in {"resolved", "updated", "pulled"}
  /\ IF const_item(node)
     THEN /\ calls' = <<>>
          /\ UNCHANGED <<args, node>>
     ELSE /\ \E pulled \in SUBSET Tables :
               args' = [i \in 1..Len(args) |-> fix_after_pullout(args[i], pulled)]
          /\ node' = Item_func_fix_after_pullout(functype, node, args')
          /\ calls' = [i \in 1..Len(args) |-> [item |-> i, method |-> "fix_after_pullout"]]
  /\ phase' = "pulled"
  /\ UNCHANGED <<functype, null_value, value, errors, warnings, ub, thd, signed_wraps,
                 decimal_status, returned>>

NextTree == Resolve \/ UpdateUsedTables \/ FixAfterPullout

SpecTree == InitTree /\ [][NextTree]_vars

-----------------------------------------------------------------------------
(* Item_func::eq() and Item_func::compile() over trees whose items are      *)
(* told apart by their address id: the node is the item of address 1 over   *)
(* the operands args.                                                       *)

\* A column called name, at the address id.
Leaf(id, name) == [id |-> id, type |-> "FIELD_ITEM", name |-> name]

\* The node of the operator f over the operands as, at the address id.
Func(id, f, as) == [id |-> id, type |-> "FUNC_ITEM", functype |-> f, args |-> as]

ThisItem == Func(1, functype, args)

\* The items built at the addresses of one sign that can be the operand at a
\* place of the node: a column, or a unary operator over a column.
OperandsAt(sign, place, names) ==
  {Leaf(sign * (1 + place), nm) : nm \in names}
  \union {Func(sign * (1 + place), g, <<Leaf(sign * (3 + place), nm)>>) :
            g \in UnaryFuncs, nm \in names}

\* The operator nodes built at the addresses of one sign.
NodesAt(sign, funcs, names) ==
  {Func(sign, f, <<a, b>>) :
     f \in funcs \intersect BinaryFuncs,
     a \in OperandsAt(sign, 1, names), b \in OperandsAt(sign, 2, names)}
  \union {Func(sign, f, <<a>>) :
            f \in funcs \intersect UnaryFuncs, a \in OperandsAt(sign, 1, names)}
  \union {Func(sign, f, <<>>) : f \in funcs \intersect {"rand"}}

\* functype() of the operator f.
Functype(f) == IF f = "neg" THEN "NEG_FUNC" ELSE "UNKNOWN_FUNC"

\* The test of Item_func::eq() on the operators if it compared functype() and
\* arg_count only.
same_operator_by_functype(this, item) ==
  /\ Functype(this.functype) = Functype(item.functype)
  /\ Len(this.args) = Len(item.args)

\* The test of Item_func::eq() on the operators of two nodes: functype(),
\* arg_count and the address func_name() returns.
same_operator(this, item) ==
  /\ Functype(this.functype) = Functype(item.functype)
  /\ Len(this.args) = Len(item.args)
  /\ func_name(this.functype) = func_name(item.functype)

\* eq() of an item: Item_func::eq() of a node, and of a column the comparison
\* of the names.
RECURSIVE Item_eq(_, _)
Item_eq(this, item) ==
  IF this.id = item.id THEN 1
  ELSE IF ~IsFunc(this) THEN (IF ~IsFunc(item) /\ this.name = item.name THEN 1 ELSE 0)
  ELSE IF item.type # "FUNC_ITEM" THEN 0
  ELSE IF ~same_operator(this, item) THEN 0
  ELSE IF \E i \in 1..Len(this.args) : Item_eq(this.args[i], item.args[i]) = 0 THEN 0
  ELSE 1

EqFuncs == {"plus", "minus", "neg", "abs", "rand"}
EqNames == {"a", "b"}

InitEq ==
  /\ \E this \in NodesAt(1, EqFuncs, EqNames) : functype = this.functype /\ args = this.args
  /\ Unevaluated
  /\ thd = TreeSession
  /\ signed_wraps = TRUE

\* The node is compared with itself, with a column, or with a node that was
\* built independently.
Eq ==
  /\ phase = "built"
  /\ \E item \in {ThisItem, Leaf(-1, "a")} \union NodesAt(-1, EqFuncs, EqNames) :
       /\ calls' = <<[by |-> 1, method |-> "eq", item |-> item]>>
       /\ returned' = Item_eq(ThisItem, item)
  /\ phase' = "compared"
  /\ UNCHANGED <<functype, args, node, null_value, value, errors, warnings, ub, thd,
                 signed_wraps, decimal_status>>

NextEq == Eq

SpecEq == InitEq /\ [][NextEq]_vars

\* The value of the context the optimizer passes to the analyzer of the node.
InitialContext == 0

\* The callbacks of a compilation: the analyzer returns false on the items
\* rejected and leaves the address of the items marking in the context, the
\* transformer returns NULL for the items nulled, a new item for the items
\* replaced and the item itself for the others.
Callbacks(ids) ==
  {cb \in [rejected : SUBSET ids, marking : SUBSET ids, replaced : SUBSET ids,
           nulled : SUBSET ids] :
     /\ Cardinality(cb.rejected) <= 1 /\ Cardinality(cb.marking) <= 1
     /\ Cardinality(cb.replaced) <= 1 /\ Cardinality(cb.nulled) <= 1}

NullItem == [id |-> 0, type |-> "NULL"]

Item_analyzer(cb, item, arg) ==
  [ok |-> item.id \notin cb.rejected,
   left |-> IF item.id \in cb.marking THEN item.id ELSE arg]

Item_transformer(cb, item) ==
  IF item.id \in cb.nulled THEN NullItem
  ELSE IF item.id \in cb.replaced THEN Leaf(-item.id, "a")
  ELSE item

\* The context of an operand if it were the one the compilation of the previous
\* operand left.
arg_v_of_previous(arg_p, previous) == previous

\* "uchar *arg_v= *arg_p;": the context of an operand is a copy of the one the
\* analyzer of the node left, whatever the previous operand did to its copy.
arg_v(arg_p, previous) == arg_p

\* Item_func::compile(): the item returned, the node after the call, the calls
\* made and the context left.  compile_args() is its loop from the operand i on.
RECURSIVE compile(_, _, _)
RECURSIVE compile_args(_, _, _, _, _)
compile_args(item, i, arg_p, previous, cb) ==
  IF i > Len(item.args) THEN [item |-> item, calls |-> <<>>, null |-> FALSE]
  ELSE LET v == arg_v(arg_p, previous)
           r == compile(item.args[i], v, cb)
           call == [by |-> item.id, method |-> "compile", item |-> item.args[i].id,
                    arg |-> v, returned |-> r.returned.id]
           changed == r.returned.id # item.args[i].id
           change == [by |-> item.id, method |-> "change_item_tree", place |-> i,
                      new |-> r.returned.id]
       IN  IF r.returned = NullItem
           THEN [item |-> [item EXCEPT !.args[i] = r.item], calls |-> r.calls \o <<call>>,
                 null |-> TRUE]
           ELSE LET new_item == IF changed THEN r.returned ELSE r.item
                    rest == compile_args([item EXCEPT !.args[i] = new_item], i + 1, arg_p,
                                         r.left, cb)
                IN  [item |-> rest.item,
                     calls |-> r.calls \o <<call>> \o (IF changed THEN <<change>> ELSE <<>>)
                               \o rest.calls,
                     null |-> rest.null]

compile(item, arg_p, cb) ==
  LET a == Item_analyzer(cb, item, arg_p)
      analysed == <<[by |-> item.id, method |-> "analyzer", item |-> item.id, arg |-> arg_p,
                     ok |-> a.ok, left |-> a.left]>>
  IN  IF ~a.ok THEN [returned |-> item, item |-> item, calls |-> analysed, left |-> a.left]
      ELSE LET c == IF IsFunc(item) THEN compile_args(item, 1, a.left, a.left, cb)
                    ELSE [item |-> item, calls |-> <<>>, null |-> FALSE]
               t == Item_transformer(cb, c.item)
           IN  IF c.null
               THEN [returned |-> NullItem, item |-> c.item, calls |-> analysed \o c.calls,
                     left |-> a.left]
               ELSE [returned |-> t, item |-> c.item,
                     calls |-> analysed \o c.calls
                               \o <<[by |-> item.id, method |-> "transformer",
                                     item |-> item.id, returned |-> t.id]>>,
                     left |-> a.left]

\* The addresses of the items of a tree.
RECURSIVE Ids(_)
Ids(item) ==
  {item.id} \union (IF IsFunc(item) THEN UNION {Ids(item.args[i]) : i \in 1..Len(item.args)}
                    ELSE {})

InitCompile ==
  /\ \E this \in NodesAt(1, {"plus", "neg", "rand"}, {"a"}) :
       functype = this.functype /\ args = this.args
  /\ Unevaluated
  /\ thd = TreeSession
  /\ signed_wraps = TRUE

\* Item_func::compile() of the node with an analyzer and a transformer.
Compile ==
  /\ phase = "built"
  /\ \E cb \in Callbacks(Ids(ThisItem)) :
       LET r == compile(ThisItem, InitialContext, cb)
       IN  /\ args' = r.item.args
           /\ calls' = r.calls
           /\ returned' = r.returned.id
  /\ phase' = "compiled"
  /\ UNCHANGED <<functype, node, null_value, value, errors, warnings, ub, thd,
                 signed_wraps, decimal_status>>

NextCompile == Compile

SpecCompile == InitCompile /\ [][NextCompile]_vars

-----------------------------------------------------------------------------
(* Properties.                                                              *)

NonNullOperands == \A i \in 1..Len(args) : ~args[i].null_value

\* The node has been evaluated as the operator f on a row without NULL.
Evaluated(f) == phase = "evaluated" /\ functype = f /\ NonNullOperands

\* The evaluation returned the mathematical integer x if the node's integer
\* type holds it, and raised the BIGINT out-of-range error if not.
ExactOrOverflow(x) ==
  IF Representable(node.unsigned_flag, x)
  THEN errors = <<>> /\ ~null_value /\ ResultValue(node.unsigned_flag, value) = x
  ELSE errors = <<"ER_DATA_OUT_OF_RANGE: BIGINT">>

\* C1: integer Add of two non-Null operands returns the exact sum when the
\* node's integer type holds it and raises IntegerOverflow otherwise; it never
\* returns a wrapped value.
C1_AddExactOrOverflow ==
  Evaluated("plus") => ExactOrOverflow(ArgValue(args[1]) + ArgValue(args[2]))

\* C2: integer Subtract of two non-Null operands returns the exact difference
\* when the node's integer type holds it and raises IntegerOverflow otherwise,
\* for every signedness and for the operands 0, LLONG_MIN and LLONG_MAX.  Stated
\* for the build in which signed arithmetic wraps, the one most favourable to
\* the code.
C2_SubtractExactOrOverflow ==
  (Evaluated("minus") /\ signed_wraps)
    => ExactOrOverflow(ArgValue(args[1]) - ArgValue(args[2]))

\* C3: integer Multiply of two non-Null operands returns the exact product when
\* the node's integer type holds it and raises IntegerOverflow otherwise, also
\* for negative products of magnitude -LLONG_MIN and -LLONG_MIN + 1.  Stated for
\* the build in which signed arithmetic wraps.
C3_MultiplyExactOrOverflow ==
  (Evaluated("mul") /\ signed_wraps)
    => ExactOrOverflow(ArgValue(args[1]) * ArgValue(args[2]))

\* C4: pure-integer IntDivide with a nonzero divisor returns the quotient cut
\* toward zero when the node's integer type holds it and raises IntegerOverflow
\* only when it does not, also for the operands LLONG_MIN, -1 and 1.  Stated for
\* the build in which signed arithmetic wraps.
C4_IntDivideExactOrOverflow ==
  (Evaluated("int_div") /\ signed_wraps /\ args[2].val # 0)
    => ExactOrOverflow(TruncDiv(ArgValue(args[1]), ArgValue(args[2])))

Abs(x) == IF x < 0 THEN -x ELSE x

\* C5: integer Modulo with non-Null operands and a nonzero divisor returns
\* r = a - trunc(a / b) * b: r is zero or has the sign of the dividend, |r| < |b|,
\* and no IntegerOverflow is raised, for every operand pair and signedness.
C5_ModuloTruncating ==
  (Evaluated("mod") /\ args[2].val # 0) =>
    LET a == ArgValue(args[1])
        b == ArgValue(args[2])
        r == ResultValue(node.unsigned_flag, value)
    IN  /\ errors = <<>>
        /\ ~null_value
        /\ r = a - TruncDiv(a, b) * b
        /\ (r = 0 \/ (r < 0) = (a < 0))
        /\ Abs(r) < Abs(b)

\* C5's case: LLONG_MIN modulo an unsigned divisor above LLONG_MAX leaves LLONG_MIN.
C5_Witness ==
  /\ Evaluated("mod")
  /\ ~args[1].unsigned_flag /\ args[1].val = LLONG_MIN
  /\ args[2].unsigned_flag /\ to_ull(args[2].val) > LLONG_MAX + 1
  /\ value = LLONG_MIN
  /\ errors = <<>>

DivisionFuncs == {"div", "int_div", "mod"}

\* C6: Divide, IntDivide and Modulo of non-Null operands in every category with
\* a divisor equal to zero yield Null and no error; the division-by-zero warning
\* is pushed if and only if MODE_ERROR_FOR_DIVISION_BY_ZERO is set, and the value
\* and the null flag are the same for both settings.
C6_DivisionByZeroIsNull ==
  (phase = "evaluated" /\ functype \in DivisionFuncs /\ NonNullOperands /\ args[2].val = 0) =>
    /\ null_value
    /\ value = 0
    /\ errors = <<>>
    /\ warnings = IF "MODE_ERROR_FOR_DIVISION_BY_ZERO" \in thd.sql_mode
                  THEN <<"ER_DIVISION_BY_ZERO">> ELSE <<>>

\* C6's case: a decimal Divide by zero with the mode set pushed the warning.
C6_Witness ==
  /\ Evaluated("div")
  /\ node.hybrid_type = "DECIMAL_RESULT"
  /\ args[1].val # 0 /\ args[2].val = 0
  /\ null_value
  /\ warnings = <<"ER_DIVISION_BY_ZERO">>

\* C7: no integer operator executes a signed operation whose mathematical
\* result lies outside LLONG_MIN..LLONG_MAX.
C7_NoSignedOverflow == ub = {}

\* The operand of Negate is a signed integer constant equal to LLONG_MIN.
NegatesConstantMin ==
  /\ functype = "neg"
  /\ phase \in {"resolved", "evaluated"}
  /\ args[1].result_type = "INT_RESULT"
  /\ args[1].const_item
  /\ ~args[1].unsigned_flag
  /\ args[1].val = LLONG_MIN

\* The node is Decimal and, once evaluated, returned -LLONG_MIN without error.
PromotedNegation ==
  /\ node.hybrid_type = "DECIMAL_RESULT"
  /\ phase = "evaluated" => (value = -LLONG_MIN /\ ~null_value /\ errors = <<>>)

\* C8: Negate of a signed integer constant equal to LLONG_MIN is promoted to
\* Decimal at resolution and evaluates to -LLONG_MIN without error, whatever
\* kind of constant item supplies the operand.
C8_NegateMinPromotedAlways == NegatesConstantMin => PromotedNegation

OperandCategories == {args[i].result_type : i \in 1..Len(args)}

\* C9: Add, Subtract, Multiply and Modulo resolve to Real if either operand is
\* Real, otherwise to Decimal if either is Decimal, otherwise to Integer,
\* whatever the order and the scales of the operands.
C9_Promotion ==
  (phase = "resolved" /\ functype \in {"plus", "minus", "mul", "mod"}) =>
    node.hybrid_type = IF "REAL_RESULT" \in OperandCategories THEN "REAL_RESULT"
                       ELSE IF "DECIMAL_RESULT" \in OperandCategories THEN "DECIMAL_RESULT"
                       ELSE "INT_RESULT"

\* C9's case: an Integer first operand and a Decimal second operand of scale 0.
C9_Witness ==
  /\ phase = "resolved"
  /\ functype = "mod"
  /\ args[1].result_type = "INT_RESULT"
  /\ args[2].result_type = "DECIMAL_RESULT" /\ args[2].decimals = 0
  /\ node.hybrid_type = "DECIMAL_RESULT"

\* The precision of the resolved node, read as Item::decimal_precision() reads it.
NodePrecision == my_decimal_length_to_precision(node.max_length, node.decimals, node.unsigned_flag)

BothInteger == OperandCategories = {"INT_RESULT"}

\* C10: a resolved Divide node is never Integer and is nullable; over two
\* Integer operands it is Decimal with scale min(s1 + increment, 30) and
\* precision min(p1 + s2 + increment, 65).
C10_DivideIsDecimal ==
  (phase = "resolved" /\ functype = "div") =>
    /\ node.hybrid_type # "INT_RESULT"
    /\ node.maybe_null
    /\ BothInteger =>
         /\ node.hybrid_type = "DECIMAL_RESULT"
         /\ node.decimals = Min(args[1].decimals + thd.div_precincrement, DECIMAL_MAX_SCALE)
         /\ NodePrecision = Min(decimal_precision(args[1]) + args[2].decimals
                                  + thd.div_precincrement, DECIMAL_MAX_PRECISION)

\* C10's case: two Integer operands divided under the default increment.
C10_Witness ==
  /\ phase = "resolved"
  /\ functype = "div"
  /\ BothInteger
  /\ thd.div_precincrement = MidPrecIncrement
  /\ node.hybrid_type = "DECIMAL_RESULT"
  /\ node.decimals = MidPrecIncrement

\* The node was resolved to Decimal by the binary operator f.
ResolvedDecimal(f) ==
  phase = "resolved" /\ functype = f /\ node.hybrid_type = "DECIMAL_RESULT"

\* The resolved node seen as an item by the operators that consume it.
NodeItem ==
  [result_type |-> node.hybrid_type, unsigned_flag |-> node.unsigned_flag,
   decimals |-> node.decimals, max_length |-> node.max_length]

\* The precision of the resolved node as Item::decimal_precision() reports it.
NodeDecimalPrecision == decimal_precision(NodeItem)

\* The width of a descriptor of the node's scale and sign at the greatest precision.
SaturatedWidth ==
  my_decimal_precision_to_length_no_truncation(DECIMAL_MAX_PRECISION, node.decimals,
                                               node.unsigned_flag)

\* C11: Add, Subtract, Multiply, Divide and Modulo resolved to Decimal leave a
\* descriptor with precision <= 65, scale <= 30 and scale <= precision, and a
\* width no larger than that of a 65-digit descriptor, whatever the operands'
\* precisions and scales and the precision increment.
C11_DecimalSaturates ==
  (\E f \in {"plus", "minus", "mul", "div", "mod"} : ResolvedDecimal(f)) =>
    /\ NodeDecimalPrecision <= DECIMAL_MAX_PRECISION
    /\ node.decimals <= DECIMAL_MAX_SCALE
    /\ node.decimals <= NodeDecimalPrecision
    /\ node.max_length <= SaturatedWidth

\* The operand descriptors (p1, s1) and (p2, s2).
OperandPrecision(i) == decimal_precision(args[i])
OperandScale(i) == args[i].decimals

\* The node was resolved by f to a category with a precision and a scale.
ResolvedExact(f) ==
  phase = "resolved" /\ functype = f /\ node.hybrid_type \in {"DECIMAL_RESULT", "INT_RESULT"}

\* C12: Add and Subtract resolve to scale max(s1, s2) and precision
\* min(max(p1 - s1, p2 - s2) + 1 + scale, 65).
C12_AdditivePrecision ==
  (ResolvedExact("plus") \/ ResolvedExact("minus")) =>
    /\ node.decimals = Max(OperandScale(1), OperandScale(2))
    /\ NodeDecimalPrecision =
         Min(Max(OperandPrecision(1) - OperandScale(1), OperandPrecision(2) - OperandScale(2))
               + 1 + node.decimals, DECIMAL_MAX_PRECISION)

\* The correction of Modulo applies: a signed dividend, an unsigned divisor
\* whose precision is not below the dividend's and whose scale is its precision.
ModuloCorrection ==
  /\ ~args[1].unsigned_flag /\ args[2].unsigned_flag
  /\ OperandPrecision(1) <= OperandPrecision(2)
  /\ OperandScale(2) = OperandPrecision(2)

\* C13: Modulo resolves to scale max(s1, s2) and precision max(p1, p2), one more
\* exactly when the correction applies.
C13_ModuloPrecision ==
  ResolvedExact("mod") =>
    /\ node.decimals = Max(OperandScale(1), OperandScale(2))
    /\ NodeDecimalPrecision = Max(OperandPrecision(1), OperandPrecision(2))
                                + (IF ModuloCorrection THEN 1 ELSE 0)

\* The width correction of Modulo applies: a signed dividend, an unsigned divisor
\* at least as wide as the dividend and whose scale is its precision.
ModuloWidthCorrection ==
  /\ ~args[1].unsigned_flag /\ args[2].unsigned_flag
  /\ args[1].max_length <= args[2].max_length
  /\ OperandScale(2) = OperandPrecision(2)

\* C13, amended: Modulo resolves to scale max(s1, s2), to the sign of the
\* dividend and to the width max(w1, w2) of the operands' widths, one more
\* exactly when the width correction applies.
C13_ModuloWidth ==
  ResolvedExact("mod") =>
    /\ node.decimals = Max(OperandScale(1), OperandScale(2))
    /\ node.unsigned_flag = args[1].unsigned_flag
    /\ node.max_length = Max(args[1].max_length, args[2].max_length)
                           + (IF ModuloWidthCorrection THEN 1 ELSE 0)

\* C13's case: a signed one-digit integer modulo an unsigned DECIMAL(1,1).
C13_Witness ==
  /\ ResolvedExact("mod")
  /\ ModuloWidthCorrection
  /\ args[1].result_type = "INT_RESULT"
  /\ args[2].result_type = "DECIMAL_RESULT"
  /\ node.max_length = args[2].max_length + 1

\* C18: integer Abs of a non-Null operand returns an unsigned operand unchanged,
\* |x| for a signed x other than LLONG_MIN, and raises IntegerOverflow for the
\* signed LLONG_MIN, returning neither LLONG_MIN nor LLONG_MAX.
C18_AbsExactOrOverflow ==
  (Evaluated("abs") /\ node.hybrid_type = "INT_RESULT") =>
    IF args[1].unsigned_flag
    THEN errors = <<>> /\ ~null_value /\ value = args[1].val
    ELSE IF args[1].val = LLONG_MIN
    THEN errors = <<"ER_DATA_OUT_OF_RANGE: BIGINT">> /\ value \notin {LLONG_MIN, LLONG_MAX}
    ELSE errors = <<>> /\ ~null_value /\ value = Abs(args[1].val)

\* C18's case: Abs of the signed LLONG_MIN raised the overflow.
C18_Witness ==
  /\ Evaluated("abs")
  /\ ~args[1].unsigned_flag /\ args[1].val = LLONG_MIN
  /\ errors = <<"ER_DATA_OUT_OF_RANGE: BIGINT">>

\* C19: Decimal Add, Subtract, Multiply, Divide and Modulo of non-Null operands
\* follow the status of the decimal library: on Ok and Truncated the value is
\* returned without error, on Overflow the decimal out-of-range error is
\* raised, on a zero divisor the result is Null without error.
C19_DecimalStatusDecides ==
  (phase = "evaluated" /\ node.hybrid_type = "DECIMAL_RESULT" /\ NonNullOperands
     /\ functype \in {"plus", "minus", "mul", "div", "mod"}) =>
    IF functype \in {"div", "mod"} /\ val_decimal(args[2]) = 0
    THEN null_value /\ errors = <<>>
    ELSE \/ ~null_value /\ errors = <<>>
         \/ /\ errors # <<>>
            /\ \A i \in 1..Len(errors) : errors[i] = "ER_DATA_OUT_OF_RANGE: DECIMAL"

\* The outer node of (a + b) - b has been evaluated on non-NULL a and b.
NestedEvaluated ==
  /\ phase = "evaluated"
  /\ functype = "minus"
  /\ args[1].type = "FUNC_ITEM"
  /\ \A i \in 1..2 : ~args[1].args[i].null_value

\* C17: for signed words a and b whose sum is representable, (a + b) - b is
\* evaluated without an overflow error in either operator and yields a.
C17_AddThenSubtract ==
  (NestedEvaluated /\ args[1].args[1].val + args[1].args[2].val \in LongLong) =>
    /\ errors = <<>>
    /\ ub = {}
    /\ ~null_value
    /\ args[1].val = args[1].args[1].val + args[1].args[2].val
    /\ value = args[1].args[1].val

C17_Witness ==
  /\ NestedEvaluated
  /\ args[1].args[1].val = LLONG_MIN
  /\ args[1].args[2].val = LLONG_MAX
  /\ value = LLONG_MIN
  /\ errors = <<>>

\* A ROUND() or TRUNCATE() node has been evaluated on non-NULL operands.
RoundEvaluated == phase = "evaluated" /\ functype \in RoundFuncs /\ NonNullOperands

\* The result of the node in units of 10^-FracDigits.
ResultUnits ==
  IF node.hybrid_type = "INT_RESULT"
  THEN (IF node.unsigned_flag THEN to_ull(value) ELSE value) * 10^FracDigits
  ELSE value

\* The units v to places decimal places: half away from zero, or toward zero.
HalfAwayFromZero(v, places) ==
  IF FracDigits - places <= 0 THEN v ELSE ToPower("half_up", v, FracDigits - places)

TowardZero(v, places) ==
  IF FracDigits - places <= 0 THEN v
  ELSE ToPower(IF v >= 0 THEN "floor" ELSE "ceil", v, FracDigits - places)

\* The decimals argument of the node leaves the value as it is: it is unsigned
\* with its top bit set.
PlacesBeyondAll == args[2].unsigned_flag /\ args[2].val < 0

\* C14: in every category ROUND() rounds half away from zero and TRUNCATE()
\* discards digits toward zero.
C14_RoundHalfAwayFromZero ==
  (RoundEvaluated /\ ~null_value) =>
    ResultUnits = IF PlacesBeyondAll THEN Units(args[1])
                  ELSE IF functype = "truncate" THEN TowardZero(Units(args[1]), args[2].val)
                  ELSE HalfAwayFromZero(Units(args[1]), args[2].val)

\* C15: integer ROUND() and TRUNCATE() of non-NULL operands return the value
\* unchanged for decimals >= 0 or unsigned; for negative decimals d within the
\* power-of-ten table, with k = 10^|d|, TRUNCATE() returns the multiple of k
\* toward zero and ROUND() the nearest multiple of k, ties away from zero, for
\* signed and unsigned values of the whole range; beyond the table they return 0.
C15_IntegerRound ==
  (RoundEvaluated /\ node.hybrid_type = "INT_RESULT") =>
    LET m == ArgValue(args[1])
        d == args[2].val
        k == 10^(-d)
        result == IF node.unsigned_flag THEN to_ull(value) ELSE value
    IN  /\ ~null_value
        /\ errors = <<>>
        /\ ub = {}
        /\ IF d >= 0 \/ args[2].unsigned_flag THEN result = m
           ELSE IF -d >= log_10_int_elements THEN result = 0
           ELSE IF functype = "truncate" THEN result = TruncDiv(m, k) * k
           ELSE result = (IF m >= 0 THEN 1 ELSE -1) * (((2 * Abs(m) + k) \div (2 * k)) * k)

\* C20: the decimals argument that Decimal ROUND() passes to my_decimal_round()
\* lies between -DECIMAL_MAX_SCALE and DECIMAL_MAX_SCALE.
C20_DecimalPlacesClamped ==
  (RoundEvaluated /\ node.hybrid_type = "DECIMAL_RESULT") =>
    Item_func_round_decimal_op_dec(args[2], node.decimals)
      \in (-DECIMAL_MAX_SCALE) .. DECIMAL_MAX_SCALE

\* C16: ROUND() and TRUNCATE() are idempotent: applied to their own result with
\* the same decimals argument they return that result.
C16_RoundIdempotent ==
  (/\ phase = "evaluated"
   /\ functype \in RoundFuncs
   /\ args[1].type = "FUNC_ITEM"
   /\ \A i \in 1..2 : ~args[1].args[i].null_value) =>
    /\ null_value = args[1].null_value
    /\ value = args[1].val

\* C21: after Resolve a node whose category is Decimal or Real has its unsigned
\* flag cleared: only Integer nodes carry unsigned_flag.
C21_UnsignedOnlyInteger ==
  (phase = "resolved" /\ node.hybrid_type \in {"DECIMAL_RESULT", "REAL_RESULT"}) =>
    ~node.unsigned_flag

\* C22: after a successful fix_fields() and after update_used_tables() the node
\* is nullable if an operand is nullable, it is constant exactly when every
\* operand is constant (a node without operands is constant), and its table map
\* is its initial pseudo tables united with the table maps of its operands.
C22_AggregatedAttributes ==
  phase \in {"resolved", "updated"} =>
    /\ (\E i \in 1..Len(args) : args[i].maybe_null) => node.maybe_null
    /\ node.const_item_cache <=> \A i \in 1..Len(args) : args[i].const_item
    /\ node.used_tables_cache =
         get_initial_pseudo_tables(functype) \union UNION {args[i].used_tables : i \in 1..Len(args)}

\* update_used_tables() has made a nullable column and an operator node over a
\* column constants, and the node over them a constant.
C22_Witness ==
  /\ phase = "updated"
  /\ Len(args) = 2
  /\ IsColumn(args[1]) /\ args[1].maybe_null /\ args[1].const_item
  /\ IsFunc(args[2]) /\ IsColumn(args[2].args[1]) /\ args[2].const_item
  /\ node.const_item_cache /\ node.maybe_null /\ node.used_tables_cache = {}

ValueMethods == {"val_int", "val_real", "val_decimal"}

IsGeometry(a) == a.result_type # "ROW_RESULT" /\ a.field_type = "MYSQL_TYPE_GEOMETRY"

\* C25: the resolution of a numeric operator with an operand that is not a row
\* and has the field type GEOMETRY fails with ER_WRONG_ARGUMENTS naming the
\* function, the operand keeps its type and the node is not marked fixed; an
\* operator without such an operand is resolved and no error is raised.
C25_GeometryOperandRejected ==
  phase # "built" =>
    IF \E i \in 1..Len(args) : IsGeometry(args[i])
    THEN /\ phase = "failed"
         /\ errors = <<"ER_WRONG_ARGUMENTS: " \o func_name(functype)>>
         /\ \A i \in 1..Len(args) :
              IsGeometry(args[i]) => args[i].result_type = "STRING_RESULT"
    ELSE /\ phase # "failed"
         /\ errors = <<>>

\* The division of a column by a GEOMETRY column has been rejected.
C25_Witness ==
  /\ phase = "failed"
  /\ functype = "div"
  /\ ~IsGeometry(args[1]) /\ IsGeometry(args[2])
  /\ errors = <<"ER_WRONG_ARGUMENTS: /">>

\* C28: Item_func::fix_after_pullout() of a constant node visits no operand
\* and leaves the node, with its constant flag and its two table maps, and its
\* operands as they are; of a node that is not constant it visits every operand
\* in order and computes the three caches again from the operands.
C28_PulloutShortCircuit ==
  [][phase' = "pulled" =>
       IF node.const_item_cache
       THEN calls' = <<>> /\ node' = node /\ args' = args
       ELSE /\ calls' = [i \in 1..Len(args) |-> [item |-> i, method |-> "fix_after_pullout"]]
            /\ node'.used_tables_cache =
                 get_initial_pseudo_tables(functype)
                 \union UNION {args'[i].used_tables : i \in 1..Len(args)}
            /\ node'.not_null_tables_cache = UNION {args'[i].not_null_tables : i \in 1..Len(args)}
            /\ node'.const_item_cache = \A i \in 1..Len(args) : args'[i].const_item]_vars

\* A node over a column that update_used_tables() made constant has been
\* pulled out: no operand was visited and the table of the column is still in
\* not_null_tables_cache though no operand names it.
C28_Witness ==
  /\ phase = "pulled"
  /\ Len(args) > 0
  /\ node.const_item_cache
  /\ calls = <<>>
  /\ node.not_null_tables_cache # {}
  /\ \A i \in 1..Len(args) : args[i].not_null_tables = {}

\* C24: an evaluation of a resolved node, the first or a later one, whatever
\* the row (NULL operands, overflow, division by zero), leaves the category, the
\* decimals, the width, the unsigned flag and the nullable flag of the node as
\* Resolve set them.
C24_EvaluationKeepsType ==
  [][phase' = "evaluated" =>
       /\ node'.hybrid_type = node.hybrid_type
       /\ node'.decimals = node.decimals
       /\ node'.max_length = node.max_length
       /\ node'.unsigned_flag = node.unsigned_flag
       /\ node'.maybe_null = node.maybe_null]_vars

\* An Integer ROUND() or TRUNCATE() has been evaluated with a negative decimals
\* argument: int_op() has assigned decimals and rounded the value.
C24_Witness ==
  /\ phase = "evaluated"
  /\ functype \in RoundFuncs
  /\ node.hybrid_type = "INT_RESULT"
  /\ node.decimals = 0
  /\ ~args[1].null_value /\ ~args[2].null_value
  /\ args[2].val < 0 /\ ~args[2].unsigned_flag

\* The node as Resolve leaves it over the operands of the next state.
ResolvedAgain ==
  resolve_type(functype, Item_func_fix_fields(functype, Constructed(functype), args'), args', thd)

\* The result of a first evaluation on the row of the next state.
FirstEvaluation ==
  Item_func_val(functype, args', ResolvedAgain, decimal_status', signed_wraps,
                "MODE_ERROR_FOR_DIVISION_BY_ZERO" \in thd.sql_mode)

\* The row of the next state has no NULL operand and no zero divisor, and its
\* evaluation has not overflowed.
PlainRowNext ==
  /\ \A i \in 1..Len(args') : ~args'[i].null_value
  /\ functype \in {"div", "int_div", "mod"} => args'[2].val # 0
  /\ errors' = <<>>
  /\ decimal_status' # E_DEC_OVERFLOW

SomeNullOperand == \E i \in 1..Len(args) : args[i].null_value

\* C30: a NULL operand goes before a zero divisor: Divide, IntDivide and Modulo
\* in any category return NULL and push no division-by-zero warning, even under
\* MODE_ERROR_FOR_DIVISION_BY_ZERO, when an operand is NULL, whatever the
\* divisor; and no binary integer operator raises the integer overflow error
\* when an operand is NULL.
C30_NullBeforeZeroDivisor ==
  (phase = "evaluated" /\ functype \in BinaryFuncs /\ SomeNullOperand) =>
    /\ functype \in DivisionFuncs =>
         null_value /\ \A k \in 1..Len(warnings) : warnings[k] # "ER_DIVISION_BY_ZERO"
    /\ (functype = "int_div" \/ node.hybrid_type = "INT_RESULT") =>
         \A k \in 1..Len(errors) : errors[k] # "ER_DATA_OUT_OF_RANGE: BIGINT"

\* An Integer modulo of NULL by zero has been evaluated under
\* MODE_ERROR_FOR_DIVISION_BY_ZERO: the result is NULL and no warning is pushed.
C30_Witness ==
  /\ phase = "evaluated"
  /\ functype = "mod"
  /\ node.hybrid_type = "INT_RESULT"
  /\ "MODE_ERROR_FOR_DIVISION_BY_ZERO" \in thd.sql_mode
  /\ args[1].null_value /\ ~args[2].null_value /\ args[2].val = 0
  /\ null_value /\ warnings = <<>> /\ errors = <<>>


\* The calls of a trace the compile() of the node made itself.
CallsOfNode(cs) ==
  LET OfNode(c) == c.by = ThisItem.id IN SelectSeq(cs, OfNode)

CompilesOf(cs) ==
  LET IsCompile(c) == c.method = "compile" IN SelectSeq(CallsOfNode(cs), IsCompile)

TransformersOf(cs) ==
  LET IsTransformer(c) == c.method = "transformer" IN SelectSeq(CallsOfNode(cs), IsTransformer)

\* What a compilation of the node over the operands before, that made the calls
\* cs, left the operands after and returned the address ret, has to satisfy.
CompiledAsSpecified(before, after, cs, ret) ==
  LET first == cs[1]
      compiles == CompilesOf(cs)
      transformers == TransformersOf(cs)
      k == Len(compiles)
  IN  /\ first.by = ThisItem.id /\ first.method = "analyzer" /\ first.item = ThisItem.id
      /\ first.arg = InitialContext
      /\ \A j \in 2..Len(cs) : ~(cs[j].by = ThisItem.id /\ cs[j].method = "analyzer")
      /\ ~first.ok => Len(cs) = 1 /\ ret = ThisItem.id /\ after = before
      /\ first.ok =>
           /\ k <= Len(before)
           /\ \A j \in 1..k : /\ compiles[j].item = before[j].id
                              /\ compiles[j].arg = first.left
                              /\ j < k => compiles[j].returned # NullItem.id
           /\ \A j \in 1..Len(before) :
                IF j <= k /\ compiles[j].returned \notin {NullItem.id, before[j].id}
                THEN after[j].id = compiles[j].returned
                ELSE after[j].id = before[j].id
           /\ Len(after) = Len(before)
           /\ IF k > 0 /\ compiles[k].returned = NullItem.id
              THEN ret = NullItem.id /\ transformers = <<>>
              ELSE /\ k = Len(before)
                   /\ transformers = <<cs[Len(cs)]>>
                   /\ cs[Len(cs)].item = ThisItem.id
                   /\ ret = cs[Len(cs)].returned

\* C27: Item_func::compile() calls the analyzer on the node first; when the
\* analyzer returns false it returns the node, visits no operand and does not
\* call the transformer on the node; otherwise it compiles the operands in
\* order, each with a copy of the context the analyzer of the node left,
\* replaces an operand only when its compile() returned another item, returns
\* NULL at once when an operand returned NULL, and else calls the transformer
\* on the node once, last, and returns what it returned.
C27_CompileOrder ==
  [][phase = "built" /\ phase' = "compiled"
       => CompiledAsSpecified(args, args', calls', returned')]_vars

\* The node has two operands, the analyzer of the first operand changed its
\* copy of the context, the second operand was compiled, an operand was
\* replaced and the transformer of the node was called last.
C27_Witness ==
  /\ phase = "compiled"
  /\ Len(args) = 2
  /\ \E j \in 1..Len(calls) :
       /\ calls[j].by = 2 /\ calls[j].method = "analyzer" /\ calls[j].left # calls[j].arg
  /\ \E j \in 1..Len(calls) : calls[j].by = 1 /\ calls[j].method = "change_item_tree"
  /\ Len(CompilesOf(calls)) = 2
  /\ calls[Len(calls)].by = 1 /\ calls[Len(calls)].method = "transformer"

\* The tree of an item without the addresses.
RECURSIVE Shape(_)
Shape(item) ==
  IF item.type = "FUNC_ITEM"
  THEN <<item.functype, [j \in 1..Len(item.args) |-> Shape(item.args[j])]>>
  ELSE <<item.type, item.name>>

\* C26: Item_func::eq() returns 1 for the node itself, 1 for an independently
\* built function node of the same operator with as many operands that are
\* pairwise equal in order, and 0 for a function node of another operator or
\* another number of operands.
C26_StructuralEquality ==
  phase = "compared" =>
    LET item == calls[1].item
    IN  /\ item.id = ThisItem.id => returned = 1
        /\ (/\ item.type = "FUNC_ITEM"
            /\ item.functype = functype
            /\ Len(item.args) = Len(args)
            /\ \A j \in 1..Len(args) : Shape(item.args[j]) = Shape(args[j]))
           => returned = 1
        /\ (/\ item.type = "FUNC_ITEM"
            /\ item.functype # functype \/ Len(item.args) # Len(args))
           => returned = 0

\* The node was compared with an independently built node of the same operator
\* over two equal operands, one of them an operator node, and eq() returned 1.
C26_Witness ==
  /\ phase = "compared"
  /\ calls[1].item.id # ThisItem.id
  /\ calls[1].item.type = "FUNC_ITEM"
  /\ Len(args) = 2 /\ args[1].type = "FUNC_ITEM"
  /\ Shape(calls[1].item) = Shape(ThisItem)
  /\ returned = 1

=============================================================================
